---- MODULE Spec2Model ----
(***************************************************************************)
(* Model of the adaptive preprocessing engine of DocuExtract:              *)
(*   src/src/preprocessing/image_analyzer.py     (ImageAnalyzer)           *)
(*   src/src/preprocessing/smart_preprocessor.py (SmartPreprocessor)       *)
(* of the batch driver's worker threads (src/app.py) that share one        *)
(* SmartPreprocessor instance, and of the vision-first fallback of         *)
(*   src/src/processors/hybrid_processor.py      (HybridProcessor).        *)
(*                                                                         *)
(* Units.  Python floats are modelled by scaled integers:                  *)
(*   skew_angle       in tenths of a degree   (0.5 degrees = 5)            *)
(*   overall_quality  in 1/200 of a point     (100 points  = 20000)        *)
(*   brightness factor in thousandths         (3.0 = 3000)                 *)
(* every other metric is an integer in the metric's own unit.              *)
(*                                                                         *)
(* Images.  A PIL image is abstracted to the quantities the analyzer       *)
(* measures on it, its mode, whether the fast OCR probe works on it,       *)
(* lines, the angles theta (tenths of a degree, 0..1799) of the lines the  *)
(* Hough transform finds on it, ink, the share of black pixels (in         *)
(* thousandths) of its three binarizations, and pix, the trace of pixel    *)
(* transforms applied to the caller's pixels.                              *)
(* Two images are pixel-identical iff the records are equal.               *)
(***************************************************************************)
EXTENDS Integers, Sequences, FiniteSets, TLC

\* ---------------------------------------------------------------- bounds
\* number of auto_preprocess / manual_preprocess / get_processing_preview
\* calls made on the one preprocessor instance
MaxCalls == 2
\* worker threads of the batch driver
NumThreads == 2

Threads == 1..NumThreads

\* ------------------------------------------------------------ small helpers
Abs(x) == IF x < 0 THEN -x ELSE x
Min(a, b) == IF a < b THEN a ELSE b
Max(a, b) == IF a > b THEN a ELSE b

\* the Hough lines of a page whose text runs at the given skew (tenths of a
\* degree, a multiple of 5): theta has a resolution of one degree, so a skew
\* of whole degrees is one line and a half degree is two neighbouring lines
LinesAt(skew) ==
    IF skew % 10 = 0 THEN <<900 + skew>>
    ELSE <<900 + skew - 5, 900 + skew + 5>>

\* ------------------------------------------------------------------ images
Img(mode, blur, contrast, brightness, noise, conf, skew, probe) ==
    [mode |-> mode, blur_score |-> blur, contrast |-> contrast,
     brightness |-> brightness, noise_level |-> noise,
     text_confidence |-> conf, lines |-> LinesAt(skew), probe |-> probe,
     ink |-> <<120, 100, 110>>,
     pix |-> <<>>]

\* an image as a Python object: obj is the object's identity within one call
\* (0 is the caller's object), img its content
Ref(obj, img) == [obj |-> obj, img |-> img]

\* a transform that returns a new image object
New(p, img) == Ref(p.obj + 1, img)

\* the caller's images of the sequential specification, one per class of
\* analysis outcome: no issue (gray, colour); colour with middling OCR
\* confidence; exposure, contrast and skew issues; every issue at once; an
\* image on which the OCR probe raises
CleanGray   == Img("L",   600, 60, 140,  3, 90,   0, "ok")
CleanColor  == Img("RGB", 600, 60, 135,  3, 90,   0, "ok")
FaintColor  == Img("RGB", 600, 60, 140,  3, 65,   5, "ok")
FlawedGray  == Img("L",   600, 30,  40,  3, 90,  30, "ok")
PoorColor   == Img("RGB",  80, 30, 230, 18,  0, -20, "ok")
NoProbeGray == Img("L",   600, 60, 140,  3, 90,   0, "raises")

Images == {CleanGray, CleanColor, FaintColor, FlawedGray, PoorColor,
           NoProbeGray}

\* the images handed to the worker threads of the batch driver
ThreadImages == {CleanGray, PoorColor}

\* the seven keys of the recommendations dict (image_analyzer.py:142-150)
RecNames == {"convert_grayscale", "adjust_brightness", "enhance_contrast",
             "sharpen", "denoise", "correct_skew", "apply_threshold"}

\* the keys of step_mapping (smart_preprocessor.py:231-239)
ManualNames == {"grayscale", "brightness", "contrast", "denoise", "sharpen",
                "threshold", "invert"}

\* force_steps arguments: None / empty, all seven names in reverse canonical
\* order, partial lists, and names that are no recommendation key
ForceLists ==
    { <<>>,
      <<"apply_threshold", "sharpen", "denoise", "enhance_contrast",
        "adjust_brightness", "correct_skew", "convert_grayscale">>,
      <<"sharpen", "convert_grayscale", "correct_skew">>,
      <<"denoise", "adjust_brightness", "apply_threshold", "enhance_contrast">>,
      <<"invert", "grayscale">> }

\* steps arguments of manual_preprocess: empty, repeated names, names that
\* step_mapping does not know, orders that differ from the canonical one
StepLists ==
    { <<>>,
      <<"grayscale", "invert">>,
      <<"invert", "rotate", "grayscale">>,
      <<"sharpen", "denoise", "sharpen">>,
      <<"threshold", "skew_correction", "brightness", "contrast">>,
      <<"brightness", "brightness">> }

\* ----------------------------------------------------------- ImageAnalyzer
\* what _quick_ocr_confidence would hand to analyze if the exception of the
\* probe left it: no value, analyze stops there
ProbeError == -1

\* a variant of QuickOcrConfidence without the try/except
QuickOcrConfidenceUncaught(img) ==
    IF img.probe = "raises" THEN ProbeError ELSE img.text_confidence

\* _quick_ocr_confidence: the probe's mean confidence, 0 when it raises
QuickOcrConfidence(img) ==
    IF img.probe = "raises" THEN 0 ELSE img.text_confidence

\* a sequence of integers in ascending order
RECURSIVE Sorted(_)
Sorted(s) ==
    IF Len(s) <= 1 THEN s
    ELSE LET rest == Sorted(Tail(s))
             before == SelectSeq(rest, LAMBDA x : x < Head(s))
             after == SelectSeq(rest, LAMBDA x : x >= Head(s))
         IN  before \o <<Head(s)>> \o after

\* np.median: the middle value, or the mean of the two middle values (exact
\* for angles of whole degrees, rounded down to a tenth otherwise)
Median(s) ==
    LET n == Len(s)
        sorted == Sorted(s)
    IN  IF n % 2 = 1 THEN sorted[(n + 1) \div 2]
        ELSE (sorted[n \div 2] + sorted[n \div 2 + 1]) \div 2

\* a variant of DetectSkew that keeps every line
DetectSkewUnfiltered(lines) ==
    LET angles == [k \in 1..Len(lines) |-> lines[k] - 900]
    IN  IF Len(angles) > 0 THEN Median(angles) ELSE 0

\* _detect_skew on the lines the Hough transform returned: the median of the
\* angles theta - 90 that lie within -45..45 degrees, 0 when there is none
DetectSkew(lines) ==
    LET all == [k \in 1..Len(lines) |-> lines[k] - 900]
        angles == SelectSeq(all, LAMBDA a : -450 <= a /\ a <= 450)
    IN  IF Len(angles) > 0 THEN Median(angles) ELSE 0

\* the dict literal of analyze: measured values, flags False, quality 0
Measure(img) ==
    [blur_score |-> img.blur_score,
     contrast |-> img.contrast,
     brightness |-> img.brightness,
     noise_level |-> img.noise_level,
     text_confidence |-> QuickOcrConfidence(img),
     skew_angle |-> DetectSkew(img.lines),
     is_color |-> (img.mode = "RGB"),
     has_low_contrast |-> FALSE,
     is_too_dark |-> FALSE,
     is_too_bright |-> FALSE,
     is_blurry |-> FALSE,
     is_noisy |-> FALSE,
     needs_skew_correction |-> FALSE,
     overall_quality |-> 0]

\* a variant of DetermineQualityIssues whose tests include the thresholds
DetermineQualityIssuesInclusive(m) ==
    [m EXCEPT !.has_low_contrast = (m.contrast <= 40),
              !.is_too_dark = (m.brightness <= 80),
              !.is_too_bright = (m.brightness >= 200),
              !.is_blurry = (m.blur_score <= 100),
              !.is_noisy = (m.noise_level >= 15),
              !.needs_skew_correction = (Abs(m.skew_angle) >= 5)]

\* _determine_quality_issues, applied to the dict m
DetermineQualityIssues(m) ==
    [m EXCEPT !.has_low_contrast = (m.contrast < 40),
              !.is_too_dark = (m.brightness < 80),
              !.is_too_bright = (m.brightness > 200),
              !.is_blurry = (m.blur_score < 100),
              !.is_noisy = (m.noise_level > 15),
              !.needs_skew_correction = (Abs(m.skew_angle) > 5)]

\* the penalty-adjusted score of _calculate_overall_quality, in points
PenaltyScore(m) ==
    100 - (IF m.has_low_contrast THEN 20 ELSE 0)
        - (IF m.is_too_dark \/ m.is_too_bright THEN 15 ELSE 0)
        - (IF m.is_blurry THEN 25 ELSE 0)
        - (IF m.is_noisy THEN 15 ELSE 0)
        - (IF m.needs_skew_correction THEN 10 ELSE 0)

\* a variant of CalculateOverallQuality that adds the OCR factor to 1 and
\* does not clamp
CalculateOverallQualityBoosted(m) ==
    [m EXCEPT !.overall_quality =
        PenaltyScore(m) * (200 + m.text_confidence)]

\* a variant of CalculateOverallQuality whose factor is the OCR factor alone
CalculateOverallQualityOcrOnly(m) ==
    [m EXCEPT !.overall_quality =
        Max(0, Min(20000, PenaltyScore(m) * (2 * m.text_confidence)))]

\* _calculate_overall_quality, applied to the dict m; the result is in 1/200
\* point: score * (0.5 + 0.5 * conf / 100) = score * (100 + conf) / 200
CalculateOverallQuality(m) ==
    [m EXCEPT !.overall_quality =
        Max(0, Min(20000, PenaltyScore(m) * (100 + m.text_confidence)))]

\* a variant of GetPreprocessingRecommendations with one confidence threshold
GetPreprocessingRecommendationsOneThreshold(m) ==
    [r \in RecNames |->
        CASE r = "convert_grayscale" -> m.is_color /\ m.text_confidence < 70
          [] r = "adjust_brightness" -> m.is_too_dark \/ m.is_too_bright
          [] r = "enhance_contrast" -> m.has_low_contrast
          [] r = "sharpen" -> m.is_blurry
          [] r = "denoise" -> m.is_noisy
          [] r = "correct_skew" -> m.needs_skew_correction
          [] r = "apply_threshold" -> m.text_confidence < 70]

\* a variant of GetPreprocessingRecommendations that asks for a threshold
\* only when the probe found text
GetPreprocessingRecommendationsTextOnly(m) ==
    [r \in RecNames |->
        CASE r = "convert_grayscale" -> m.is_color /\ m.text_confidence < 70
          [] r = "adjust_brightness" -> m.is_too_dark \/ m.is_too_bright
          [] r = "enhance_contrast" -> m.has_low_contrast
          [] r = "sharpen" -> m.is_blurry
          [] r = "denoise" -> m.is_noisy
          [] r = "correct_skew" -> m.needs_skew_correction
          [] r = "apply_threshold" ->
                m.text_confidence > 0 /\ m.text_confidence < 60]

\* get_preprocessing_recommendations, read from the dict m
GetPreprocessingRecommendations(m) ==
    [r \in RecNames |->
        CASE r = "convert_grayscale" -> m.is_color /\ m.text_confidence < 70
          [] r = "adjust_brightness" -> m.is_too_dark \/ m.is_too_bright
          [] r = "enhance_contrast" -> m.has_low_contrast
          [] r = "sharpen" -> m.is_blurry
          [] r = "denoise" -> m.is_noisy
          [] r = "correct_skew" -> m.needs_skew_correction
          [] r = "apply_threshold" -> m.text_confidence < 60]

\* a variant of NeedsPreprocessing that asks for both conditions
NeedsPreprocessingBoth(m) ==
    /\ m.overall_quality < 80 * 200
    /\ \E r \in RecNames : GetPreprocessingRecommendations(m)[r]

\* needs_preprocessing, read from the dict m (80 points, in 1/200 point)
NeedsPreprocessing(m) ==
    \/ m.overall_quality < 80 * 200
    \/ \E r \in RecNames : GetPreprocessingRecommendations(m)[r]

\* what analyze returns for an image when nothing else runs
Analyze(img) == CalculateOverallQuality(DetermineQualityIssues(Measure(img)))

\* ---------------------------------------------------- corrective operations
\* PIL convert('L'): always a new object; the pixels of an L image are kept
ConvertL(p) ==
    New(p, IF p.img.mode = "L" THEN p.img
           ELSE [p.img EXCEPT !.mode = "L", !.pix = Append(@, "luma")])

\* a variant of CorrectSkew that leaves angles under 5 degrees alone
CorrectSkewCoarse(p, angle) ==
    IF Abs(angle) < 50 THEN p
    ELSE New(p, [p.img EXCEPT
            !.lines = [k \in 1..Len(@) |-> (@[k] - angle + 1800) % 1800],
                              !.pix = Append(@, "rotate")])

\* _correct_skew
CorrectSkew(p, angle) ==
    IF Abs(angle) < 5 THEN p
    ELSE New(p, [p.img EXCEPT
            !.lines = [k \in 1..Len(@) |-> (@[k] - angle + 1800) % 1800],
                              !.pix = Append(@, "rotate")])

\* a variant of BrightnessFactor without the clamp
BrightnessFactorUnclamped(current_brightness) ==
    IF current_brightness > 0
    THEN (140 * 1000) \div current_brightness
    ELSE 1500

\* the factor of _auto_brightness, in thousandths
BrightnessFactor(current_brightness) ==
    IF current_brightness > 0
    THEN Max(300, Min(3000, (140 * 1000) \div current_brightness))
    ELSE 1500

\* _auto_brightness
AutoBrightness(p, current_brightness) ==
    IF Abs(current_brightness - 140) < 10 THEN p
    ELSE New(p, [p.img EXCEPT
            !.brightness =
                Min(255, (@ * BrightnessFactor(current_brightness)) \div 1000),
            !.pix = Append(@, "scale")])

\* _enhance_contrast: CLAHE on a single-channel array, ImageEnhance.Contrast
\* with factor 1.5 on a colour one
EnhanceContrast(p) ==
    IF p.img.mode = "L"
    THEN New(p, [p.img EXCEPT !.contrast = Min(127, (@ * 3) \div 2),
                              !.pix = Append(@, "clahe")])
    ELSE New(p, [p.img EXCEPT !.contrast = Min(127, (@ * 3) \div 2),
                              !.pix = Append(@, "contrast")])

\* a variant of DenoiseBand whose upper bands include their lower boundary
DenoiseBandInclusive(noise_level) ==
    IF noise_level < 5 THEN "none"
    ELSE IF noise_level >= 20 THEN "nlm"
    ELSE IF noise_level >= 10 THEN "bilateral"
    ELSE "gaussian"

\* the algorithm _smart_denoise picks for a noise level
DenoiseBand(noise_level) ==
    IF noise_level < 5 THEN "none"
    ELSE IF noise_level > 20 THEN "nlm"
    ELSE IF noise_level > 10 THEN "bilateral"
    ELSE "gaussian"

\* _smart_denoise: every filter smooths, which also lowers the variance of
\* the Laplacian (blur_score)
SmartDenoise(p, noise_level) ==
    LET band == DenoiseBand(noise_level) IN
    IF band = "none" THEN p
    ELSE New(p, [p.img EXCEPT
            !.noise_level = CASE band = "nlm" -> @ \div 5
                              [] band = "bilateral" -> @ \div 3
                              [] OTHER -> @ \div 2,
            !.blur_score = @ \div 2,
            !.pix = Append(@, band)])

\* the algorithm _smart_sharpen picks for a blur score
SharpenBand(blur_score) ==
    IF blur_score > 500 THEN "none"
    ELSE IF blur_score < 50 THEN "kernel"
    ELSE "unsharp"

\* _smart_sharpen
SmartSharpen(p, blur_score) ==
    LET band == SharpenBand(blur_score) IN
    IF band = "none" THEN p
    ELSE New(p, [p.img EXCEPT
            !.blur_score = IF band = "kernel" THEN @ * 4 ELSE @ * 2,
            !.pix = Append(@, band)])

\* the three binarizations _adaptive_threshold tries, in the order of the
\* methods list; img.ink holds the ratio of black pixels of each, in
\* thousandths
Methods == <<"otsu", "adaptive_gaussian", "adaptive_mean">>

\* the score of a candidate, times 150: 1 - |ratio - 0.15| / 0.15
ThresholdScore(ratio) == 150 - Abs(ratio - 150)

\* the two nested ifs of the selection loop: the candidate is in the ideal
\* range and its score is above best_score
BetterCandidate(ratio, best) ==
    /\ 50 <= ratio /\ ratio <= 300
    /\ ThresholdScore(ratio) > best.score

\* the selection loop over the first k candidates: best_method (0 for None)
\* and best_score
RECURSIVE BestOf(_, _)
BestOf(ink, k) ==
    IF k = 0 THEN [method |-> 0, score |-> 0]
    ELSE LET best == BestOf(ink, k - 1)
         IN  IF BetterCandidate(ink[k], best)
             THEN [method |-> k, score |-> ThresholdScore(ink[k])]
             ELSE best

\* the index of the binarization returned: Otsu when best_method is None
BestMethod(ink) ==
    IF BestOf(ink, Len(Methods)).method = 0 THEN 1
    ELSE BestOf(ink, Len(Methods)).method

\* _adaptive_threshold: a single-channel two-valued image, the binarization
\* chosen among the three
AdaptiveThreshold(p) ==
    New(p, [p.img EXCEPT !.mode = "L", !.noise_level = 0,
                         !.ink = [k \in 1..Len(Methods) |->
                                    p.img.ink[BestMethod(p.img.ink)]],
                         !.pix = Append(@, Methods[BestMethod(p.img.ink)])])

\* ImageOps.invert(img.convert('L'))
Invert(p) ==
    New(p, [p.img EXCEPT !.mode = "L", !.brightness = 255 - @,
                         !.pix = Append(@, "invert")])

\* a variant of StepMapping that passes the image's own noise and blur
StepMappingMeasured(step, p) ==
    CASE step = "grayscale" -> ConvertL(p)
      [] step = "brightness" -> AutoBrightness(p, p.img.brightness)
      [] step = "contrast" -> EnhanceContrast(p)
      [] step = "denoise" -> SmartDenoise(p, p.img.noise_level)
      [] step = "sharpen" -> SmartSharpen(p, p.img.blur_score)
      [] step = "threshold" -> AdaptiveThreshold(p)
      [] step = "invert" -> Invert(p)

\* step_mapping[step](img) of manual_preprocess
StepMapping(step, p) ==
    CASE step = "grayscale" -> ConvertL(p)
      [] step = "brightness" -> AutoBrightness(p, p.img.brightness)
      [] step = "contrast" -> EnhanceContrast(p)
      [] step = "denoise" -> SmartDenoise(p, 10)
      [] step = "sharpen" -> SmartSharpen(p, 100)
      [] step = "threshold" -> AdaptiveThreshold(p)
      [] step = "invert" -> Invert(p)

\* ------------------------------------------------------------------- state
VARIABLES
    analyzer_metrics,    \* ImageAnalyzer.metrics: the dict object it refers to
    heap,                \* the live metrics dict objects, by identity
    processing_history,  \* SmartPreprocessor.processing_history
    calls,               \* calls made so far on the instance
    pc,                  \* per thread: position in the call it executes
    local                \* per thread: arguments and local variables

vars == <<analyzer_metrics, heap, processing_history, calls, pc, local>>

NoImg == Img("none", 0, 0, 0, 0, 0, 0, "ok")
NoRef == Ref(0, NoImg)
NoRecs == [r \in RecNames |-> FALSE]
NoResult == [kind |-> "none"]
\* Python's None, and a response variable not assigned yet
None == "None"
NoResponse == [success |-> FALSE, error |-> "unset", data |-> None]

\* the frame of a thread that executes no call
IdleFrame ==
    [kind |-> "none", site |-> 0, image |-> NoRef, arg |-> <<>>,
     metrics |-> 0, recommendations |-> NoRecs, processed |-> NoRef,
     applied_steps |-> <<>>, step_details |-> <<>>, processed_metrics |-> 0,
     i |-> 0, raised |-> "", result |-> NoResult,
     invoked |-> <<>>, vision_result |-> NoResponse,
     ocr_result |-> NoResponse, llm_result |-> NoResponse,
     hybrid_result |-> NoResponse]

\* the dict objects some local variable or some report refers to
Referenced(loc, hist) ==
    ({loc[t].metrics : t \in Threads}
        \cup {loc[t].processed_metrics : t \in Threads}
        \cup {hist[k].original_metrics : k \in 1..Len(hist)}
        \cup {hist[k].processed_metrics : k \in 1..Len(hist)}) \ {0}

\* reference counting: a dict object nothing refers to is freed
Collect(h, keep) == [id \in (DOMAIN h) \cap keep |-> h[id]]

\* the identity of a newly created dict object
FreshId(used) ==
    CHOOSE id \in 1..(Cardinality(used) + 1) :
        id \notin used /\ \A j \in 1..(id - 1) : j \in used

\* a variant of NewMetrics that refills the dict the analyzer already holds
NewMetricsInPlace(h, used, m) ==
    IF analyzer_metrics \in DOMAIN h
    THEN [ptr |-> analyzer_metrics,
          heap |-> [h EXCEPT ![analyzer_metrics] = m]]
    ELSE [ptr |-> FreshId(used),
          heap |-> [j \in ((DOMAIN h) \cap used) \cup {FreshId(used)} |->
                      IF j = FreshId(used) THEN m ELSE h[j]]]

\* self.metrics = {...} of analyze: a new dict object replaces the one the
\* analyzer referred to
NewMetrics(h, used, m) ==
    LET id == FreshId(used)
    IN  [ptr |-> id,
         heap |-> [j \in ((DOMAIN h) \cap used) \cup {id} |->
                      IF j = id THEN m ELSE h[j]]]

Init ==
    /\ analyzer_metrics = 0
    /\ heap = [id \in {} |-> 0]
    /\ processing_history = <<>>
    /\ calls = 0
    /\ pc = [t \in Threads |-> "idle"]
    /\ local = [t \in Threads |-> IdleFrame]

\* ------------------------------------------------------------ entry points
\* auto_preprocess(image, force_steps) is called
AutoPreprocess(t, image, force_steps) ==
    /\ pc[t] = "idle"
    /\ calls < MaxCalls
    /\ calls' = calls + 1
    /\ local' = [local EXCEPT ![t] =
            [IdleFrame EXCEPT !.kind = "auto", !.site = 1,
                              !.image = Ref(0, image), !.arg = force_steps]]
    /\ pc' = [pc EXCEPT ![t] = "an_measure"]
    /\ UNCHANGED <<analyzer_metrics, heap, processing_history>>

\* manual_preprocess(image, steps) is called: processed = image.copy()
ManualPreprocess(t, image, steps) ==
    /\ pc[t] = "idle"
    /\ calls < MaxCalls
    /\ calls' = calls + 1
    /\ local' = [local EXCEPT ![t] =
            [IdleFrame EXCEPT !.kind = "manual",
                              !.image = Ref(0, image), !.arg = steps,
                              !.processed = New(Ref(0, image), image),
                              !.i = 1]]
    /\ pc' = [pc EXCEPT ![t] = "manual_loop"]
    /\ UNCHANGED <<analyzer_metrics, heap, processing_history>>

\* get_processing_preview(image) is called: it starts auto_preprocess(image)
GetProcessingPreview(t, image) ==
    /\ pc[t] = "idle"
    /\ calls < MaxCalls
    /\ calls' = calls + 1
    /\ local' = [local EXCEPT ![t] =
            [IdleFrame EXCEPT !.kind = "preview", !.site = 1,
                              !.image = Ref(0, image)]]
    /\ pc' = [pc EXCEPT ![t] = "an_measure"]
    /\ UNCHANGED <<analyzer_metrics, heap, processing_history>>

\* ------------------------------------------------------ ImageAnalyzer.analyze
\* the image analyze was called with: the caller's, or the processed one
AnalyzedImage(f) == IF f.site = 1 THEN f.image.img ELSE f.processed.img

\* a variant of AnalyzeMeasure that measures only while self.metrics is empty
AnalyzeMeasureOnce(t) ==
    /\ pc[t] = "an_measure"
    /\ LET n == NewMetrics(heap, Referenced(local, processing_history),
                           IF analyzer_metrics = 0
                           THEN Measure(AnalyzedImage(local[t]))
                           ELSE heap[analyzer_metrics])
       IN  /\ heap' = n.heap
           /\ analyzer_metrics' = n.ptr
    /\ pc' = [pc EXCEPT ![t] = "an_issues"]
    /\ UNCHANGED <<processing_history, calls, local>>

\* analyze, up to self.metrics = {...}
AnalyzeMeasure(t) ==
    /\ pc[t] = "an_measure"
    /\ QuickOcrConfidence(AnalyzedImage(local[t])) # ProbeError
    /\ LET n == NewMetrics(heap, Referenced(local, processing_history),
                           Measure(AnalyzedImage(local[t])))
       IN  /\ heap' = n.heap
           /\ analyzer_metrics' = n.ptr
    /\ pc' = [pc EXCEPT ![t] = "an_issues"]
    /\ UNCHANGED <<processing_history, calls, local>>

\* analyze: self._determine_quality_issues()
AnalyzeIssues(t) ==
    /\ pc[t] = "an_issues"
    /\ heap' = [heap EXCEPT ![analyzer_metrics] = DetermineQualityIssues(@)]
    /\ pc' = [pc EXCEPT ![t] = "an_quality"]
    /\ UNCHANGED <<analyzer_metrics, processing_history, calls, local>>

\* analyze: self._calculate_overall_quality()
AnalyzeQuality(t) ==
    /\ pc[t] = "an_quality"
    /\ heap' = [heap EXCEPT ![analyzer_metrics] = CalculateOverallQuality(@)]
    /\ pc' = [pc EXCEPT ![t] = "an_return"]
    /\ UNCHANGED <<analyzer_metrics, processing_history, calls, local>>

\* analyze: return self.metrics, assigned to metrics or processed_metrics
AnalyzeReturn(t) ==
    /\ pc[t] = "an_return"
    /\ IF local[t].kind = "analyze"
       THEN /\ local' = [local EXCEPT ![t].metrics = analyzer_metrics]
            /\ pc' = [pc EXCEPT ![t] = "analyzed"]
       ELSE IF local[t].site = 1
       THEN /\ local' = [local EXCEPT ![t].metrics = analyzer_metrics]
            /\ pc' = [pc EXCEPT ![t] = "recommend"]
       ELSE /\ local' = [local EXCEPT ![t].processed_metrics = analyzer_metrics]
            /\ pc' = [pc EXCEPT ![t] = "report"]
    /\ UNCHANGED <<analyzer_metrics, heap, processing_history, calls>>

\* -------------------------------------------------------- auto_preprocess
\* recommendations = self.analyzer.get_preprocessing_recommendations()
Recommend(t) ==
    /\ pc[t] = "recommend"
    /\ local' = [local EXCEPT ![t].recommendations =
                    GetPreprocessingRecommendations(heap[analyzer_metrics])]
    /\ pc' = [pc EXCEPT ![t] = "begin"]
    /\ UNCHANGED <<analyzer_metrics, heap, processing_history, calls>>

\* a variant of Force that drops the override
ForceIgnored(recommendations, force_steps) == recommendations

\* a variant of Force without the membership test: every listed name
\* becomes a key of the dict
RECURSIVE ForceAnyName(_, _)
ForceAnyName(recommendations, force_steps) ==
    IF force_steps = <<>> THEN recommendations
    ELSE ForceAnyName((Head(force_steps) :> TRUE) @@ recommendations,
                      Tail(force_steps))

\* the force_steps loop: for step in force_steps, a name that is a key of
\* the dict is set to True, any other name is passed over
RECURSIVE Force(_, _)
Force(recommendations, force_steps) ==
    IF force_steps = <<>> THEN recommendations
    ELSE LET step == Head(force_steps)
         IN  Force(IF step \in DOMAIN recommendations
                   THEN [recommendations EXCEPT ![step] = TRUE]
                   ELSE recommendations,
                   Tail(force_steps))

\* a variant of CopyImage that returns the caller's object
CopyImageAliased(image) == image

\* processed = image.copy()
CopyImage(image) == New(image, image.img)

\* processed = image.copy(), the empty lists, and the force_steps override
Begin(t) ==
    /\ pc[t] = "begin"
    /\ local' = [local EXCEPT
            ![t].processed = CopyImage(local[t].image),
            ![t].applied_steps = <<>>,
            ![t].step_details = <<>>,
            ![t].recommendations = Force(@, local[t].arg)]
    /\ pc' = [pc EXCEPT ![t] = "grayscale"]
    /\ UNCHANGED <<analyzer_metrics, heap, processing_history, calls>>

\* a variant of Applied that records the detail only when the step has one
\* beyond its name and reason
AppliedBareDetail(f, cond, image, name, detail) ==
    IF cond
    THEN [f EXCEPT !.processed = image,
                   !.applied_steps = Append(@, name),
                   !.step_details =
                        IF DOMAIN detail = {"step", "reason"} THEN @
                        ELSE Append(@, detail)]
    ELSE f

\* a variant of Applied that records the step at the head of the lists
AppliedAtHead(f, cond, image, name, detail) ==
    IF cond
    THEN [f EXCEPT !.processed = image,
                   !.applied_steps = <<name>> \o @,
                   !.step_details = <<detail>> \o @]
    ELSE f

\* one conditional step of auto_preprocess: when cond holds the frame gets
\* the transformed image and the step's name and detail are appended
Applied(f, cond, image, name, detail) ==
    IF cond
    THEN [f EXCEPT !.processed = image,
                   !.applied_steps = Append(@, name),
                   !.step_details = Append(@, detail)]
    ELSE f

\* the conditions of the seven if statements
DoGrayscale(f) ==
    f.recommendations["convert_grayscale"] /\ f.processed.img.mode # "L"
DoSkew(f) == f.recommendations["correct_skew"]
DoBrightness(f) == f.recommendations["adjust_brightness"]
\* a variant of DoContrast that ignores the recommendation
DoContrastAlways(f) == TRUE
DoContrast(f) == f.recommendations["enhance_contrast"]
DoDenoise(f) == f.recommendations["denoise"]
\* a variant of DoSharpen that ignores the recommendation
DoSharpenAlways(f) == TRUE
DoSharpen(f) == f.recommendations["sharpen"]
DoThreshold(f) == f.recommendations["apply_threshold"]

\* the seven if statements, in the order of the source: each takes the frame
\* (and the dict the local variable metrics refers to) to the frame after it
AfterGrayscale(f) ==
    Applied(f, DoGrayscale(f), ConvertL(f.processed), "grayscale",
            [step |-> "grayscale", reason |-> "Improve text recognition"])

AfterSkew(f, metrics) ==
    LET angle == metrics.skew_angle
    IN  Applied(f, DoSkew(f), CorrectSkew(f.processed, angle),
                "skew_correction",
                [step |-> "skew_correction", angle |-> angle,
                 reason |-> "Text alignment"])

AfterBrightness(f, metrics) ==
    Applied(f, DoBrightness(f),
            AutoBrightness(f.processed, metrics.brightness),
            "brightness_adjustment",
            [step |-> "brightness_adjustment",
             reason |-> "Optimize brightness"])

AfterContrast(f) ==
    Applied(f, DoContrast(f), EnhanceContrast(f.processed),
            "contrast_enhancement",
            [step |-> "contrast_enhancement",
             reason |-> "Improve text clarity"])

AfterDenoise(f, metrics) ==
    Applied(f, DoDenoise(f),
            SmartDenoise(f.processed, metrics.noise_level), "denoising",
            [step |-> "denoising", noise_level |-> metrics.noise_level,
             reason |-> "Reduce noise"])

\* a variant of AfterSharpen that measures the blur score again on the image
\* as the earlier steps left it
AfterSharpenRemeasured(f, metrics) ==
    LET blur_score == Analyze(f.processed.img).blur_score
    IN  Applied(f, DoSharpen(f),
                SmartSharpen(f.processed, blur_score), "sharpening",
                [step |-> "sharpening", blur_score |-> blur_score,
                 reason |-> "Reduce blur"])

AfterSharpen(f, metrics) ==
    Applied(f, DoSharpen(f),
            SmartSharpen(f.processed, metrics.blur_score), "sharpening",
            [step |-> "sharpening", blur_score |-> metrics.blur_score,
             reason |-> "Reduce blur"])

AfterThreshold(f) ==
    Applied(f, DoThreshold(f), AdaptiveThreshold(f.processed),
            "adaptive_threshold",
            [step |-> "adaptive_threshold", reason |-> "Binarize text"])

StepGrayscale(t) ==
    /\ pc[t] = "grayscale"
    /\ local' = [local EXCEPT ![t] = AfterGrayscale(@)]
    /\ pc' = [pc EXCEPT ![t] = "skew"]
    /\ UNCHANGED <<analyzer_metrics, heap, processing_history, calls>>

StepSkew(t) ==
    /\ pc[t] = "skew"
    /\ local' = [local EXCEPT ![t] = AfterSkew(@, heap[@.metrics])]
    /\ pc' = [pc EXCEPT ![t] = "brightness"]
    /\ UNCHANGED <<analyzer_metrics, heap, processing_history, calls>>

StepBrightness(t) ==
    /\ pc[t] = "brightness"
    /\ local' = [local EXCEPT ![t] = AfterBrightness(@, heap[@.metrics])]
    /\ pc' = [pc EXCEPT ![t] = "contrast"]
    /\ UNCHANGED <<analyzer_metrics, heap, processing_history, calls>>

StepContrast(t) ==
    /\ pc[t] = "contrast"
    /\ local' = [local EXCEPT ![t] = AfterContrast(@)]
    /\ pc' = [pc EXCEPT ![t] = "denoise"]
    /\ UNCHANGED <<analyzer_metrics, heap, processing_history, calls>>

StepDenoise(t) ==
    /\ pc[t] = "denoise"
    /\ local' = [local EXCEPT ![t] = AfterDenoise(@, heap[@.metrics])]
    /\ pc' = [pc EXCEPT ![t] = "sharpen"]
    /\ UNCHANGED <<analyzer_metrics, heap, processing_history, calls>>

StepSharpen(t) ==
    /\ pc[t] = "sharpen"
    /\ local' = [local EXCEPT ![t] = AfterSharpen(@, heap[@.metrics])]
    /\ pc' = [pc EXCEPT ![t] = "threshold"]
    /\ UNCHANGED <<analyzer_metrics, heap, processing_history, calls>>

\* the last step; then processed_metrics = self.analyzer.analyze(processed)
StepThreshold(t) ==
    /\ pc[t] = "threshold"
    /\ local' = [local EXCEPT ![t] = [AfterThreshold(@) EXCEPT !.site = 2]]
    /\ pc' = [pc EXCEPT ![t] = "an_measure"]
    /\ UNCHANGED <<analyzer_metrics, heap, processing_history, calls>>

\* the processing_info dict; the metrics are references to dict objects
ProcessingInfo(f, h) ==
    [original_metrics |-> f.metrics,
     processed_metrics |-> f.processed_metrics,
     applied_steps |-> f.applied_steps,
     step_details |-> f.step_details,
     quality_improvement |-> h[f.processed_metrics].overall_quality
                                - h[f.metrics].overall_quality,
     recommendations |-> f.recommendations]

\* a variant of HistoryAppend that keeps the latest report only
HistoryKeepLatest(history, info) == <<info>>

\* self.processing_history.append(processing_info)
HistoryAppend(history, info) == Append(history, info)

\* processing_info is built and appended, and auto_preprocess returns; inside
\* get_processing_preview the rest of the previews dict is still to be built
Report(t) ==
    /\ pc[t] = "report"
    /\ LET info == ProcessingInfo(local[t], heap)
       IN  /\ processing_history' = HistoryAppend(processing_history, info)
           /\ local' = [local EXCEPT ![t].result =
                    [kind |-> "auto", image |-> local[t].processed,
                     info |-> info]]
    /\ pc' = [pc EXCEPT ![t] =
                IF local[t].kind = "preview" THEN "preview" ELSE "done"]
    /\ UNCHANGED <<analyzer_metrics, heap, calls>>

\* ------------------------------------------------------ manual_preprocess
\* a variant of ManualStep that skips a step it has applied before
ManualStepOnce(t) ==
    /\ pc[t] = "manual_loop"
    /\ local[t].i <= Len(local[t].arg)
    /\ LET step == local[t].arg[local[t].i]
       IN  local' = [local EXCEPT ![t] =
                [(IF step \in ManualNames
                        /\ \A k \in 1..Len(@.applied_steps) :
                                @.applied_steps[k] # step
                  THEN [@ EXCEPT !.processed = StepMapping(step, @),
                                 !.applied_steps = Append(@, step)]
                  ELSE @)
                 EXCEPT !.i = @ + 1]]
    /\ UNCHANGED <<analyzer_metrics, heap, processing_history, calls, pc>>

\* one iteration of the loop over steps
ManualStep(t) ==
    /\ pc[t] = "manual_loop"
    /\ local[t].i <= Len(local[t].arg)
    /\ LET step == local[t].arg[local[t].i]
       IN  local' = [local EXCEPT ![t] =
                [(IF step \in ManualNames
                  THEN [@ EXCEPT !.processed = StepMapping(step, @),
                                 !.applied_steps = Append(@, step)]
                  ELSE @)
                 EXCEPT !.i = @ + 1]]
    /\ UNCHANGED <<analyzer_metrics, heap, processing_history, calls, pc>>

\* a variant of ManualReturn that also records the report in the history
ManualReturnRecorded(t) ==
    /\ pc[t] = "manual_loop"
    /\ local[t].i > Len(local[t].arg)
    /\ local' = [local EXCEPT ![t].result =
            [kind |-> "manual", image |-> local[t].processed,
             info |-> [applied_steps |-> local[t].applied_steps]]]
    /\ processing_history' =
            Append(processing_history,
                   [original_metrics |-> 0, processed_metrics |-> 0,
                    applied_steps |-> local[t].applied_steps,
                    step_details |-> <<>>, quality_improvement |-> 0,
                    recommendations |-> NoRecs])
    /\ pc' = [pc EXCEPT ![t] = "done"]
    /\ UNCHANGED <<analyzer_metrics, heap, calls>>

\* return processed, {'applied_steps': applied_steps}
ManualReturn(t) ==
    /\ pc[t] = "manual_loop"
    /\ local[t].i > Len(local[t].arg)
    /\ local' = [local EXCEPT ![t].result =
            [kind |-> "manual", image |-> local[t].processed,
             info |-> [applied_steps |-> local[t].applied_steps]]]
    /\ pc' = [pc EXCEPT ![t] = "done"]
    /\ UNCHANGED <<analyzer_metrics, heap, processing_history, calls>>

\* ------------------------------------------------- get_processing_preview
\* the previews dict, once auto_preprocess(image)[0] is there
PreviewRest(t) ==
    /\ pc[t] = "preview"
    /\ local' = [local EXCEPT ![t].result =
            [kind |-> "preview",
             original |-> local[t].image,
             auto |-> local[t].processed,
             grayscale |-> ConvertL(local[t].image),
             enhanced |-> EnhanceContrast(local[t].image),
             threshold |-> AdaptiveThreshold(local[t].image)]]
    /\ pc' = [pc EXCEPT ![t] = "done"]
    /\ UNCHANGED <<analyzer_metrics, heap, processing_history, calls>>

\* ------------------------------------------------------------- exceptions
\* the positions at which a library call (numpy, OpenCV, PIL) is made, which
\* can raise: nothing in the preprocessor catches it
CanRaise(p, f) ==
    \/ p \in {"an_measure", "begin", "preview"}
    \/ p = "fb_vision" /\ f.image.img.mode = "none"
    \/ p = "grayscale" /\ DoGrayscale(f)
    \/ p = "skew" /\ DoSkew(f)
    \/ p = "brightness" /\ DoBrightness(f)
    \/ p = "contrast" /\ DoContrast(f)
    \/ p = "denoise" /\ DoDenoise(f)
    \/ p = "sharpen" /\ DoSharpen(f)
    \/ p = "threshold" /\ DoThreshold(f)
    \/ p = "manual_loop" /\ f.i <= Len(f.arg) /\ f.arg[f.i] \in ManualNames

\* a variant of Raise that records the steps applied so far in the history
RaiseRecorded(t) ==
    /\ CanRaise(pc[t], local[t])
    /\ processing_history' =
            Append(processing_history,
                   [original_metrics |-> local[t].metrics,
                    processed_metrics |-> local[t].metrics,
                    applied_steps |-> local[t].applied_steps,
                    step_details |-> local[t].step_details,
                    quality_improvement |-> 0,
                    recommendations |-> local[t].recommendations])
    /\ local' = [local EXCEPT ![t] =
            [IdleFrame EXCEPT !.kind = local[t].kind,
                              !.image = local[t].image,
                              !.arg = local[t].arg,
                              !.i = local[t].i, !.raised = pc[t]]]
    /\ pc' = [pc EXCEPT ![t] = "failed"]
    /\ heap' = Collect(heap, Referenced(local', processing_history')
                                \cup {analyzer_metrics})
    /\ UNCHANGED <<analyzer_metrics, calls>>

\* the exception propagates to the caller: the frame is discarded (what the
\* caller knows is kept: the call, its arguments, and where it raised)
Raise(t) ==
    /\ CanRaise(pc[t], local[t])
    /\ local' = [local EXCEPT ![t] =
            [IdleFrame EXCEPT !.kind = local[t].kind,
                              !.image = local[t].image,
                              !.arg = local[t].arg,
                              !.i = local[t].i, !.raised = pc[t]]]
    /\ pc' = [pc EXCEPT ![t] = "failed"]
    /\ heap' = Collect(heap, Referenced(local', processing_history)
                                \cup {analyzer_metrics})
    /\ UNCHANGED <<analyzer_metrics, processing_history, calls>>

\* the caller has taken the result, or has handled the exception
Finish(t) ==
    /\ pc[t] \in {"done", "failed"}
    /\ local' = [local EXCEPT ![t] = IdleFrame]
    /\ pc' = [pc EXCEPT ![t] = "idle"]
    /\ heap' = Collect(heap, Referenced(local', processing_history)
                                \cup {analyzer_metrics})
    /\ UNCHANGED <<analyzer_metrics, processing_history, calls>>

\* ---------------------------------------------------------- specifications
\* the steps of auto_preprocess, and the end of any call
AutoStep(t) ==
    \/ AnalyzeMeasure(t)
    \/ AnalyzeIssues(t)
    \/ AnalyzeQuality(t)
    \/ AnalyzeReturn(t)
    \/ Recommend(t)
    \/ Begin(t)
    \/ StepGrayscale(t)
    \/ StepSkew(t)
    \/ StepBrightness(t)
    \/ StepContrast(t)
    \/ StepDenoise(t)
    \/ StepSharpen(t)
    \/ StepThreshold(t)
    \/ Report(t)
    \/ Raise(t)
    \/ Finish(t)

\* one caller makes its calls on the instance one after the other
Next ==
    \/ \E image \in Images, force_steps \in ForceLists :
            AutoPreprocess(1, image, force_steps)
    \/ \E image \in Images, steps \in StepLists :
            ManualPreprocess(1, image, steps)
    \/ \E image \in Images : GetProcessingPreview(1, image)
    \/ AutoStep(1)
    \/ ManualStep(1)
    \/ ManualReturn(1)
    \/ PreviewRest(1)

Spec == Init /\ [][Next]_vars

\* the batch driver: every worker thread runs auto_preprocess(image) on the
\* shared instance, as process_single_image does in Automatic mode
NextThreads ==
    \E t \in Threads :
        \/ \E image \in ThreadImages : AutoPreprocess(t, image, <<>>)
        \/ AutoStep(t)

SpecThreads == Init /\ [][NextThreads]_vars

\* ------------------------------------------- the analyzer used on its own
\* measured values next to the thresholds of the flags, every confidence the
\* probe can report, and images whose probe raises
GridImages ==
    {Img(mode, blur_score, contrast, brightness, noise_level,
         text_confidence, skew_angle, "ok") :
        mode \in {"L", "RGB"}, blur_score \in {99, 100},
        contrast \in {39, 40}, brightness \in {79, 80, 200, 201},
        noise_level \in {15, 16}, text_confidence \in 0..100,
        skew_angle \in {-10, 5, 10}}
    \cup
    {Img(mode, blur_score, contrast, brightness, noise_level,
         text_confidence, skew_angle, "raises") :
        mode \in {"L", "RGB"}, blur_score \in {99, 100},
        contrast \in {39, 40}, brightness \in {79, 80, 200, 201},
        noise_level \in {15, 16}, text_confidence \in {0, 90},
        skew_angle \in {-10, 5, 10}}

\* images on which the Hough transform finds no line, or up to three lines
\* whose angles lie inside, on and outside the range the detector keeps
Thetas == {0, 440, 450, 460, 900, 1340, 1350, 1360, 1790}
LineImages ==
    {[CleanGray EXCEPT !.lines = <<>>]}
    \cup {[CleanGray EXCEPT !.lines = <<a>>] : a \in Thetas}
    \cup {[CleanGray EXCEPT !.lines = <<a, b>>] : a \in Thetas, b \in Thetas}
    \cup {[CleanGray EXCEPT !.lines = <<a, b, c>>] :
                a \in Thetas, b \in Thetas, c \in Thetas}

\* the images the analyzer may have analyzed before
EarlierImages == {PoorColor, CleanGray}

\* a caller is about to run analyze(image) on an analyzer that is new, or
\* that has analyzed an earlier image whose dict nobody holds any more
InitAnalyzer ==
    /\ \/ analyzer_metrics = 0 /\ heap = [id \in {} |-> 0]
       \/ \E earlier \in EarlierImages :
            analyzer_metrics = 1 /\ heap = [id \in {1} |-> Analyze(earlier)]
    /\ processing_history = <<>>
    /\ calls = 0
    /\ pc = [t \in Threads |-> IF t = 1 THEN "an_measure" ELSE "idle"]
    /\ \E image \in GridImages \cup LineImages :
            local = [t \in Threads |->
                        IF t = 1
                        THEN [IdleFrame EXCEPT !.kind = "analyze", !.site = 1,
                                               !.image = Ref(0, image)]
                        ELSE IdleFrame]

\* the caller runs get_preprocessing_recommendations() after analyze
CallRecommendations(t) ==
    /\ pc[t] = "analyzed"
    /\ local' = [local EXCEPT ![t].recommendations =
                    GetPreprocessingRecommendations(heap[analyzer_metrics])]
    /\ pc' = [pc EXCEPT ![t] = "recommended"]
    /\ UNCHANGED <<analyzer_metrics, heap, processing_history, calls>>

\* the caller runs needs_preprocessing()
CallNeedsPreprocessing(t) ==
    /\ pc[t] = "recommended"
    /\ local' = [local EXCEPT ![t].result =
                    [kind |-> "needs",
                     value |-> NeedsPreprocessing(heap[analyzer_metrics])]]
    /\ pc' = [pc EXCEPT ![t] = "answered"]
    /\ UNCHANGED <<analyzer_metrics, heap, processing_history, calls>>

NextAnalyzer ==
    \/ AnalyzeMeasure(1)
    \/ AnalyzeIssues(1)
    \/ AnalyzeQuality(1)
    \/ AnalyzeReturn(1)
    \/ CallRecommendations(1)
    \/ CallNeedsPreprocessing(1)
    \/ Raise(1)

SpecAnalyzer == InitAnalyzer /\ [][NextAnalyzer]_vars

\* ------------------------------------- corrective operations on their own
\* the images and the values the two severity-driven operations are called
\* with: every noise level around the three band boundaries, every mean
\* brightness an 8-bit image can have
OperationImages == {FlawedGray, PoorColor}
NoiseLevels == 0..25
BrightnessLevels == 0..255
\* images whose three binarizations have ink ratios below, on, inside and
\* above the ideal range 0.05..0.3
InkRatios == {0, 49, 50, 100, 150, 200, 299, 300, 301, 500}
InkImages ==
    {[image EXCEPT !.ink = <<otsu, adaptive_gaussian, adaptive_mean>>] :
        image \in OperationImages, otsu \in InkRatios,
        adaptive_gaussian \in InkRatios, adaptive_mean \in InkRatios}

\* a caller holds an image and is about to call one operation on it
InitOperations ==
    /\ analyzer_metrics = 0
    /\ heap = [id \in {} |-> 0]
    /\ processing_history = <<>>
    /\ calls = 0
    /\ pc = [t \in Threads |-> IF t = 1 THEN "operation" ELSE "idle"]
    /\ \E image \in OperationImages \cup InkImages :
            local = [t \in Threads |->
                        IF t = 1
                        THEN [IdleFrame EXCEPT !.kind = "operation",
                                               !.image = Ref(0, image)]
                        ELSE IdleFrame]

\* self._smart_denoise(image, noise_level)
CallSmartDenoise(t, noise_level) ==
    /\ pc[t] = "operation"
    /\ local' = [local EXCEPT ![t].result =
                    [kind |-> "denoise", value |-> noise_level,
                     image |-> SmartDenoise(local[t].image, noise_level)]]
    /\ pc' = [pc EXCEPT ![t] = "operated"]
    /\ UNCHANGED <<analyzer_metrics, heap, processing_history, calls>>

\* self._auto_brightness(image, current_brightness)
CallAutoBrightness(t, current_brightness) ==
    /\ pc[t] = "operation"
    /\ local' = [local EXCEPT ![t].result =
                    [kind |-> "brightness", value |-> current_brightness,
                     image |-> AutoBrightness(local[t].image,
                                              current_brightness)]]
    /\ pc' = [pc EXCEPT ![t] = "operated"]
    /\ UNCHANGED <<analyzer_metrics, heap, processing_history, calls>>

\* self._adaptive_threshold(image)
CallAdaptiveThreshold(t) ==
    /\ pc[t] = "operation"
    /\ local' = [local EXCEPT ![t].result =
                    [kind |-> "threshold", value |-> 0,
                     image |-> AdaptiveThreshold(local[t].image)]]
    /\ pc' = [pc EXCEPT ![t] = "operated"]
    /\ UNCHANGED <<analyzer_metrics, heap, processing_history, calls>>

\* the severity-driven operations are tried with every severity on the two
\* base images, the binarization on every image
NextOperations ==
    \/ /\ local[1].image.img \in OperationImages
       /\ \E noise_level \in NoiseLevels : CallSmartDenoise(1, noise_level)
    \/ /\ local[1].image.img \in OperationImages
       /\ \E current_brightness \in BrightnessLevels :
                CallAutoBrightness(1, current_brightness)
    \/ CallAdaptiveThreshold(1)

SpecOperations == InitOperations /\ [][NextOperations]_vars

\* ------------------------------ one auto_preprocess call on measured grids
\* images whose measured values lie on both sides of every threshold of the
\* flags and of every band boundary of the operations the flags lead to
AutoGridImages ==
    {Img(mode, blur_score, contrast, brightness, noise_level,
         text_confidence, skew_angle, "ok") :
        mode \in {"L", "RGB"}, blur_score \in {49, 50, 99, 100},
        contrast \in {39, 40}, brightness \in {79, 80, 200, 201},
        noise_level \in {15, 16, 20, 21}, text_confidence \in {0, 65, 90},
        skew_angle \in {-10, 5, 10}}
    \cup
    {Img(mode, blur_score, contrast, brightness, noise_level,
         text_confidence, skew_angle, "raises") :
        mode \in {"L", "RGB"}, blur_score \in {49, 50, 99, 100},
        contrast \in {39, 40}, brightness \in {79, 80, 200, 201},
        noise_level \in {15, 16, 20, 21}, text_confidence \in {90},
        skew_angle \in {-10, 5, 10}}

\* a new preprocessor on which the caller's one call, auto_preprocess(image)
\* without force_steps, has just started
InitAuto ==
    /\ analyzer_metrics = 0
    /\ heap = [id \in {} |-> 0]
    /\ processing_history = <<>>
    /\ calls = 1
    /\ pc = [t \in Threads |-> IF t = 1 THEN "an_measure" ELSE "idle"]
    /\ \E image \in AutoGridImages :
            local = [t \in Threads |->
                        IF t = 1
                        THEN [IdleFrame EXCEPT !.kind = "auto", !.site = 1,
                                               !.image = Ref(0, image)]
                        ELSE IdleFrame]

NextAuto == AutoStep(1)

SpecAuto == InitAuto /\ [][NextAuto]_vars

\* ---------------------- one auto_preprocess call with names in force_steps
\* recommendation names, applied-step names and a manual-mode name
ForceNames == {"sharpen", "apply_threshold", "grayscale", "denoising",
               "invert"}

MaxForce == 3

\* the lists of at most MaxForce of these names
ForceNameLists ==
    UNION {[1..n -> ForceNames] : n \in 0..MaxForce}

\* a new preprocessor on which the caller's one call,
\* auto_preprocess(image, force_steps), has just started
InitForce ==
    /\ analyzer_metrics = 0
    /\ heap = [id \in {} |-> 0]
    /\ processing_history = <<>>
    /\ calls = 1
    /\ pc = [t \in Threads |-> IF t = 1 THEN "an_measure" ELSE "idle"]
    /\ \E image \in Images, force_steps \in ForceNameLists :
            local = [t \in Threads |->
                        IF t = 1
                        THEN [IdleFrame EXCEPT !.kind = "auto", !.site = 1,
                                               !.image = Ref(0, image),
                                               !.arg = force_steps]
                        ELSE IdleFrame]

NextForce == AutoStep(1)

SpecForce == InitForce /\ [][NextForce]_vars

\* ------------------------------------------ HybridProcessor with fallback
\* BaseProcessor.prepare_response: a truthy error makes a failure response
PrepareResponse(data, error) ==
    IF error # None /\ error # ""
    THEN [success |-> FALSE, error |-> error, data |-> None]
    ELSE [success |-> TRUE, error |-> None, data |-> data]

\* the JSON schema argument: absent or given
Schemas == {None, "schema"}

\* the images handed to process_with_fallback: a PIL image, and an object
\* that is not one
FallbackImages == {CleanGray, NoImg}

\* what a model answers: the text (no schema), or with a schema the parsed
\* JSON, or the raw text when it does not parse
Answers(schema) ==
    IF schema = None THEN {[text |-> "answer"]}
    ELSE {[parsed |-> "answer"],
          [raw_response |-> "answer",
           warning |-> "Failed to parse response as JSON"]}

\* the responses of LLMProcessor.process for a PIL image
VisionResponses(schema) ==
    {PrepareResponse(data, None) : data \in Answers(schema)}
    \cup {PrepareResponse(None, "Model not found or not vision-capable"),
          PrepareResponse(None, "LLM processing failed")}
    \cup (IF schema = None THEN {}
          ELSE {PrepareResponse(None, "Invalid JSON schema provided")})

\* the responses of OCRProcessor.process for a PIL image: the stripped text
\* and the mean confidence, or a failure
OcrResponses ==
    {PrepareResponse([text |-> text, confidence |-> confidence], None) :
        text \in {"", "invoice"}, confidence \in {40, 90}}
    \cup {PrepareResponse(None, "OCR processing failed")}

\* the responses of LLMProcessor.process_text
TextResponses(schema) ==
    {PrepareResponse(data, None) : data \in Answers(schema)}
    \cup {PrepareResponse(None, "Model not found"),
          PrepareResponse(None, "LLM text processing failed")}
    \cup (IF schema = None THEN {}
          ELSE {PrepareResponse(None, "Invalid JSON schema provided")})

\* _calculate_combined_confidence, in percent
CalculateCombinedConfidence(ocr_data, llm_result) ==
    Min((ocr_data.confidence * 7) \div 10
            + (IF llm_result.success THEN 30 ELSE 0), 100)

\* process_with_fallback(image, ..., schema) is called
ProcessWithFallback(t, image, schema) ==
    /\ pc[t] = "idle"
    /\ calls < MaxCalls
    /\ calls' = calls + 1
    /\ local' = [local EXCEPT ![t] =
            [IdleFrame EXCEPT !.kind = "fallback", !.image = Ref(0, image),
                              !.arg = <<schema>>]]
    /\ pc' = [pc EXCEPT ![t] = "fb_vision"]
    /\ UNCHANGED <<analyzer_metrics, heap, processing_history>>

\* a variant of FallbackVision that goes on to the hybrid approach whatever
\* the vision result
FallbackVisionNoReturn(t) ==
    /\ pc[t] = "fb_vision"
    /\ local[t].image.img.mode # "none"
    /\ \E r \in VisionResponses(local[t].arg[1]) :
            local' = [local EXCEPT ![t].vision_result = r,
                                   ![t].invoked = Append(@, "vision")]
    /\ pc' = [pc EXCEPT ![t] = "hy_ocr"]
    /\ UNCHANGED <<analyzer_metrics, heap, processing_history, calls>>

\* the vision attempt: on success the response tagged direct_vision is
\* returned, otherwise process() is entered
FallbackVision(t) ==
    /\ pc[t] = "fb_vision"
    /\ local[t].image.img.mode # "none"
    /\ \E r \in VisionResponses(local[t].arg[1]) :
        IF r.success
        THEN /\ local' = [local EXCEPT
                    ![t].vision_result = r,
                    ![t].invoked = Append(@, "vision"),
                    ![t].result =
                        PrepareResponse([method |-> "direct_vision",
                                         result |-> r.data], None)]
             /\ pc' = [pc EXCEPT ![t] = "done"]
        ELSE /\ local' = [local EXCEPT ![t].vision_result = r,
                                       ![t].invoked = Append(@, "vision")]
             /\ pc' = [pc EXCEPT ![t] = "hy_ocr"]
    /\ UNCHANGED <<analyzer_metrics, heap, processing_history, calls>>

\* process(): the OCR step, and its two early returns
HybridOcr(t) ==
    /\ pc[t] = "hy_ocr"
    /\ \E r \in OcrResponses :
        IF ~r.success
        THEN /\ local' = [local EXCEPT
                    ![t].ocr_result = r,
                    ![t].invoked = Append(@, "ocr"),
                    ![t].hybrid_result =
                        PrepareResponse(None, <<"OCR failed: ", r.error>>)]
             /\ pc' = [pc EXCEPT ![t] = "fb_return"]
        ELSE IF r.data.text = ""
        THEN /\ local' = [local EXCEPT
                    ![t].ocr_result = r,
                    ![t].invoked = Append(@, "ocr"),
                    ![t].hybrid_result =
                        PrepareResponse(
                            [ocr_result |-> r.data, llm_result |-> None,
                             warning |-> "No text extracted by OCR"], None)]
             /\ pc' = [pc EXCEPT ![t] = "fb_return"]
        ELSE /\ local' = [local EXCEPT ![t].ocr_result = r,
                                       ![t].invoked = Append(@, "ocr")]
             /\ pc' = [pc EXCEPT ![t] = "hy_text"]
    /\ UNCHANGED <<analyzer_metrics, heap, processing_history, calls>>

\* process(): the text model on the extracted text, and the combined result
HybridText(t) ==
    /\ pc[t] = "hy_text"
    /\ \E r \in TextResponses(local[t].arg[1]) :
        local' = [local EXCEPT
            ![t].llm_result = r,
            ![t].invoked = Append(@, "text"),
            ![t].hybrid_result =
                PrepareResponse(
                    [ocr_result |-> local[t].ocr_result.data,
                     llm_result |-> IF r.success THEN r.data ELSE None,
                     llm_error |-> r.error,
                     extraction_method |-> "hybrid",
                     confidence_score |->
                        CalculateCombinedConfidence(local[t].ocr_result.data,
                                                    r)], None)]
    /\ pc' = [pc EXCEPT ![t] = "fb_return"]
    /\ UNCHANGED <<analyzer_metrics, heap, processing_history, calls>>

\* process_with_fallback after process() returned: the hybrid data tagged
\* hybrid_fallback, or the failure of both methods
FallbackReturn(t) ==
    /\ pc[t] = "fb_return"
    /\ local' = [local EXCEPT ![t].result =
            IF local[t].hybrid_result.success
            THEN PrepareResponse(
                    [method |-> "hybrid_fallback",
                     vision_error |-> local[t].vision_result.error]
                        @@ local[t].hybrid_result.data, None)
            ELSE PrepareResponse(None,
                    <<"Both methods failed. Vision: ",
                      local[t].vision_result.error,
                      ", Hybrid: ", local[t].hybrid_result.error>>)]
    /\ pc' = [pc EXCEPT ![t] = "done"]
    /\ UNCHANGED <<analyzer_metrics, heap, processing_history, calls>>

\* one caller runs process_with_fallback, one call after the other
NextFallback ==
    \/ \E image \in FallbackImages, schema \in Schemas :
            ProcessWithFallback(1, image, schema)
    \/ FallbackVision(1)
    \/ HybridOcr(1)
    \/ HybridText(1)
    \/ FallbackReturn(1)
    \/ Raise(1)
    \/ Finish(1)

SpecFallback == Init /\ [][NextFallback]_vars

\* ------------------------------------------------------------------ claims

\* the set of the elements of a sequence
Range(s) == {s[k] : k \in 1..Len(s)}

\* the step names auto_preprocess records, in the canonical order
CanonicalOrder ==
    <<"grayscale", "skew_correction", "brightness_adjustment",
      "contrast_enhancement", "denoising", "sharpening", "adaptive_threshold">>

\* the position of a step name in the canonical order, 0 for any other name
CanonicalIndex(name) ==
    CASE name = "grayscale" -> 1
      [] name = "skew_correction" -> 2
      [] name = "brightness_adjustment" -> 3
      [] name = "contrast_enhancement" -> 4
      [] name = "denoising" -> 5
      [] name = "sharpening" -> 6
      [] name = "adaptive_threshold" -> 7
      [] OTHER -> 0

\* the recommendation key that decides a recorded step
RecOf(name) ==
    CASE name = "grayscale" -> "convert_grayscale"
      [] name = "skew_correction" -> "correct_skew"
      [] name = "brightness_adjustment" -> "adjust_brightness"
      [] name = "contrast_enhancement" -> "enhance_contrast"
      [] name = "denoising" -> "denoise"
      [] name = "sharpening" -> "sharpen"
      [] name = "adaptive_threshold" -> "apply_threshold"

\* the recorded step a recommendation key stands for
StepOf(r) == CHOOSE name \in Range(CanonicalOrder) : RecOf(name) = r

\* a sequence of step names in strictly increasing canonical position
IsCanonicalSubsequence(steps) ==
    /\ \A k \in 1..Len(steps) : CanonicalIndex(steps[k]) > 0
    /\ \A k \in 1..(Len(steps) - 1) :
            CanonicalIndex(steps[k]) < CanonicalIndex(steps[k + 1])

\* the thread executes auto_preprocess (directly or for a preview)
InAuto(t) == local[t].kind \in {"auto", "preview"}

\* auto_preprocess has returned to the caller of thread t
AutoDone(t) == pc[t] = "done" /\ local[t].kind = "auto"

\* C1: at every point of every auto_preprocess call, and in every report of
\* the history, applied_steps is a subsequence of the canonical order: no
\* step twice, none before a step that precedes it
C1_CanonicalOrder ==
    /\ \A t \in Threads :
            InAuto(t) => IsCanonicalSubsequence(local[t].applied_steps)
    /\ \A k \in 1..Len(processing_history) :
            IsCanonicalSubsequence(processing_history[k].applied_steps)

\* C1 witness: all seven steps were forced in reverse order and applied
C1_Witness ==
    /\ AutoDone(1)
    /\ Len(local[1].arg) = 7
    /\ local[1].arg[1] = "apply_threshold"
    /\ local[1].result.info.applied_steps = CanonicalOrder

\* C3: a step is recorded only if its recommendation, after the override,
\* is true, and that only if the analysis of the caller's image recommends
\* it or force_steps names it
C3_OnlyRecommendedApplied ==
    \A t \in Threads :
        InAuto(t) =>
            \A k \in 1..Len(local[t].applied_steps) :
                LET r == RecOf(local[t].applied_steps[k])
                IN  /\ local[t].recommendations[r]
                    /\ \/ GetPreprocessingRecommendations(
                                Analyze(local[t].image.img))[r]
                       \/ r \in Range(local[t].arg)

\* C3 witness: a call that applied recommended and forced steps and left
\* out the steps that were neither
C3_Witness ==
    /\ AutoDone(1)
    /\ local[1].image.img = FlawedGray
    /\ local[1].arg = <<"sharpen", "convert_grayscale", "correct_skew">>
    /\ local[1].result.info.applied_steps =
            <<"skew_correction", "brightness_adjustment",
              "contrast_enhancement", "sharpening">>

\* the recommendation keys force_steps names
Forced(t) == Range(local[t].arg) \cap RecNames

\* C4 as stated: every forced recommendation is true in the report and its
\* step is recorded in applied_steps, for every image
C4_ForcedAlwaysApplied ==
    \A t \in Threads :
        AutoDone(t) =>
            \A r \in Forced(t) :
                /\ local[t].result.info.recommendations[r]
                /\ StepOf(r) \in Range(local[t].result.info.applied_steps)

\* C4 amended: every forced recommendation is true in the report and its
\* step is recorded, except that the grayscale step is applied and recorded
\* only when the image is not already of mode L
C4_ForcedAppliedUnlessGray ==
    \A t \in Threads :
        AutoDone(t) =>
            \A r \in Forced(t) :
                /\ local[t].result.info.recommendations[r]
                /\ (StepOf(r) \in Range(local[t].result.info.applied_steps))
                        <=> (r = "convert_grayscale"
                                => local[t].image.img.mode # "L")

\* C4 witness: a forced grayscale on an L image is left out while the other
\* forced steps, none of them recommended, are applied
C4_Witness ==
    /\ AutoDone(1)
    /\ local[1].image.img = CleanGray
    /\ Len(local[1].arg) = 7
    /\ local[1].result.info.recommendations = [r \in RecNames |-> TRUE]
    /\ local[1].result.info.applied_steps
            = SubSeq(CanonicalOrder, 2, 7)

\* thread t is inside auto_preprocess or manual_preprocess called directly
InCall(t) ==
    /\ local[t].kind \in {"auto", "manual"}
    /\ pc[t] \notin {"idle", "done", "failed"}

\* C5: a step of auto_preprocess or manual_preprocess that does not return
\* leaves processing_history as it is, and the step at which an exception
\* leaves the call hands the caller no image and no report: so a failed
\* call returns nothing and the history is as it was before the call
C5_FailureLeavesNothing ==
    [][\A t \in Threads :
            (InCall(t) /\ pc'[t] # "done") =>
                /\ processing_history' = processing_history
                /\ pc'[t] = "failed" => local'[t].result = NoResult]_vars

\* C5 witness: an auto_preprocess call failed at its last step, the adaptive
\* threshold, after an earlier call had put a report in the history
C5_Witness ==
    /\ pc[1] = "failed"
    /\ local[1].kind = "auto"
    /\ local[1].raised = "threshold"
    /\ Len(processing_history) = 1

\* auto_preprocess or manual_preprocess has returned to the caller of t
CallDone(t) == pc[t] = "done" /\ local[t].kind \in {"auto", "manual"}

\* C6: from the call to the return the caller's image keeps its pixels and
\* its mode, and the image returned is another object than the caller's
C6_InputPreserved ==
    [][\A t \in Threads :
            /\ (pc[t] # "idle" /\ pc'[t] # "idle")
                    => local'[t].image = local[t].image
            /\ (pc'[t] = "done" /\ local'[t].kind \in {"auto", "manual"})
                    => local'[t].result.image.obj # local'[t].image.obj]_vars

\* C6 witness: a call returned whose steps all took their no-op branch
\* (manual brightness, twice, on an image whose mean is at the target): the
\* image returned has the caller's pixels and is the copy, not the input
C6_Witness ==
    /\ CallDone(1)
    /\ local[1].result.info.applied_steps = <<"brightness", "brightness">>
    /\ local[1].result.image.img = local[1].image.img
    /\ local[1].result.image.obj = 1

\* the names of a sequence that step_mapping knows, order and repetitions kept
Recognized(steps) == SelectSeq(steps, LAMBDA name : name \in ManualNames)

\* the image after the named operations, applied one after the other
RECURSIVE ApplyAll(_, _)
ApplyAll(steps, p) ==
    IF steps = <<>> THEN p
    ELSE ApplyAll(Tail(steps), StepMapping(Head(steps), p))

\* C7: when the loop of manual_preprocess has handled the first i-1 names,
\* applied_steps is those names with the unrecognized ones removed, and the
\* image is the copy of the input with exactly the recognized operations
\* applied in that order; at the return this is the whole steps argument;
\* and a call that failed did not fail at an unrecognized name
C7_ManualOrder ==
    \A t \in Threads :
        /\ (local[t].kind = "manual" /\ pc[t] \in {"manual_loop", "done"}) =>
            /\ local[t].applied_steps
                    = Recognized(SubSeq(local[t].arg, 1, local[t].i - 1))
            /\ local[t].processed
                    = ApplyAll(local[t].applied_steps,
                               New(local[t].image, local[t].image.img))
            /\ pc[t] = "done" =>
                    local[t].result.info.applied_steps
                        = Recognized(local[t].arg)
        /\ (local[t].kind = "manual" /\ pc[t] = "failed") =>
                local[t].arg[local[t].i] \in ManualNames

\* C7 witness: a steps argument with a repeated name, in an order that is
\* not the canonical one, and one with an unrecognized name between two
\* recognized ones
C7_Witness ==
    /\ pc[1] = "done"
    /\ local[1].kind = "manual"
    /\ \/ /\ local[1].arg = <<"sharpen", "denoise", "sharpen">>
          /\ local[1].result.info.applied_steps = local[1].arg
       \/ /\ local[1].arg = <<"invert", "rotate", "grayscale">>
          /\ local[1].result.info.applied_steps = <<"invert", "grayscale">>

\* C8: no step of manual_preprocess, from the call to the return, changes
\* the dict the analyzer holds, any metrics dict, or processing_history, and
\* the report returned has the single key applied_steps
C8_ManualNoAnalysis ==
    [][\A t \in Threads :
            (local[t].kind = "manual" \/ local'[t].kind = "manual") =>
                /\ analyzer_metrics' = analyzer_metrics
                /\ heap' = heap
                /\ processing_history' = processing_history
                /\ pc'[t] = "done" =>
                        DOMAIN local'[t].result.info = {"applied_steps"}]_vars

\* C8 witness: a manual call with the brightness step returned after an
\* auto_preprocess call had left metrics in the analyzer and a report
C8_Witness ==
    /\ pc[1] = "done"
    /\ local[1].kind = "manual"
    /\ analyzer_metrics # 0
    /\ Len(processing_history) = 1
    /\ "brightness" \in Range(local[1].result.info.applied_steps)

\* a report with the metrics dicts it refers to in place of the references
Deref(info, h) ==
    [info EXCEPT !.original_metrics = h[info.original_metrics],
                 !.processed_metrics = h[info.processed_metrics]]

\* thread t completes a run of auto_preprocess in this step
CompletesRun(t) == pc[t] = "report" /\ pc'[t] # "report"

\* C9: every step keeps every report of the history in its place and with
\* its content, metrics included; a step that completes a run of
\* auto_preprocess (also the run inside get_processing_preview) appends the
\* report of that run and nothing else, and no other step changes the history
C9_HistoryAppendOnly ==
    [][/\ \A k \in 1..Len(processing_history) :
            /\ k <= Len(processing_history')
            /\ Deref(processing_history'[k], heap')
                    = Deref(processing_history[k], heap)
       /\ IF \E t \in Threads : CompletesRun(t)
          THEN \E t \in Threads :
                /\ CompletesRun(t)
                /\ processing_history'
                        = Append(processing_history, local'[t].result.info)
          ELSE processing_history' = processing_history]_vars

\* C9 witness: two reports in the history, the second from the run inside
\* get_processing_preview
C9_Witness ==
    /\ Len(processing_history) = 2
    /\ pc[1] = "done"
    /\ local[1].kind = "preview"

\* what auto_preprocess(image, force_steps) reports on a preprocessor that
\* was just constructed: the pipeline on the image's own analysis
AutoAlone(img, force_steps) ==
    LET m == Analyze(img)
        f0 == [IdleFrame EXCEPT
                    !.image = Ref(0, img),
                    !.processed = New(Ref(0, img), img),
                    !.recommendations =
                        Force(GetPreprocessingRecommendations(m), force_steps)]
        f7 == AfterThreshold(AfterSharpen(AfterDenoise(AfterContrast(
                AfterBrightness(AfterSkew(AfterGrayscale(f0), m), m)), m), m))
    IN  [recommendations |-> f7.recommendations,
         applied_steps |-> f7.applied_steps,
         original_metrics |-> m,
         processed_metrics |-> Analyze(f7.processed.img)]

\* the same four items of the report thread t got back
Reported(t) ==
    LET info == local[t].result.info
    IN  [recommendations |-> info.recommendations,
         applied_steps |-> info.applied_steps,
         original_metrics |-> heap[info.original_metrics],
         processed_metrics |-> heap[info.processed_metrics]]

\* C2 as stated: under every interleaving of the worker threads, the report
\* a thread gets back is the one the call produces when run alone
C2_ThreadsIsolated ==
    \A t \in Threads :
        AutoDone(t) =>
            Reported(t) = AutoAlone(local[t].image.img, local[t].arg)

\* C10: whatever calls were made on the instance before, the report of an
\* auto_preprocess call is the one a fresh instance gives for the image and
\* force_steps
C10_NoCrossImageMemory ==
    \A t \in Threads :
        (pc[t] \in {"done", "preview"} /\ local[t].result.kind = "auto") =>
            Reported(t) = AutoAlone(local[t].image.img, local[t].arg)

\* C10 witness: a second auto_preprocess call returned on an instance whose
\* first call was on an image with other metrics
C10_Witness ==
    /\ AutoDone(1)
    /\ Len(processing_history) = 2
    /\ heap[processing_history[1].original_metrics]
            # heap[processing_history[2].original_metrics]

\* a report of auto_preprocess is in the hands of thread t
HasReport(t) ==
    pc[t] \in {"done", "preview"} /\ local[t].result.kind = "auto"

\* C11: from the return of the first analyze to the end of the call, the dict
\* the local variable metrics refers to holds the metrics of the caller's
\* image (the re-analysis does not overwrite it); in the report
\* original_metrics is that dict, processed_metrics holds the metrics of the
\* image returned, and quality_improvement is the difference of the two
\* overall_quality values
C11_ReportMetrics ==
    \A t \in Threads :
        /\ (InAuto(t) /\ local[t].metrics # 0) =>
                heap[local[t].metrics] = Analyze(local[t].image.img)
        /\ HasReport(t) =>
            LET info == local[t].result.info
            IN  /\ heap[info.original_metrics] = Analyze(local[t].image.img)
                /\ heap[info.processed_metrics]
                        = Analyze(local[t].result.image.img)
                /\ info.quality_improvement
                        = Analyze(local[t].result.image.img).overall_quality
                            - Analyze(local[t].image.img).overall_quality

\* C11 witness: a report whose two metrics dicts differ and whose
\* quality_improvement is positive
C11_Witness ==
    /\ AutoDone(1)
    /\ heap[local[1].result.info.original_metrics]
            # heap[local[1].result.info.processed_metrics]
    /\ local[1].result.info.quality_improvement > 0

\* C12: when the analysis of the caller's image recommends nothing and
\* force_steps is empty, the report has no applied step, the image returned
\* has the caller's pixels, and quality_improvement is 0
C12_NothingToDo ==
    \A t \in Threads :
        (/\ HasReport(t)
         /\ local[t].arg = <<>>
         /\ \A r \in RecNames :
                ~GetPreprocessingRecommendations(
                        Analyze(local[t].image.img))[r]) =>
            /\ local[t].result.info.applied_steps = <<>>
            /\ local[t].result.image.img = local[t].image.img
            /\ local[t].result.info.quality_improvement = 0

\* C12 witness: auto_preprocess returned for a clean colour image, without
\* force_steps
C12_Witness ==
    /\ AutoDone(1)
    /\ local[1].image.img = CleanColor
    /\ local[1].arg = <<>>
    /\ local[1].result.info.applied_steps = <<>>

\* analyze(image), called on the analyzer directly, has returned to thread t
Returned(t) ==
    local[t].kind = "analyze" /\ pc[t] \in {"analyzed", "recommended", "answered"}

\* the penalty-adjusted score the flags of the dict m stand for, in points
PenaltyOf(m) ==
    100 - (IF m.has_low_contrast THEN 20 ELSE 0)
        - (IF m.is_too_dark \/ m.is_too_bright THEN 15 ELSE 0)
        - (IF m.is_blurry THEN 25 ELSE 0)
        - (IF m.is_noisy THEN 15 ELSE 0)
        - (IF m.needs_skew_correction THEN 10 ELSE 0)

\* every flag of the dict m is the threshold test on m's own numbers
\* (skew_angle is in tenths of a degree)
FlagsMatch(m) ==
    /\ m.has_low_contrast <=> (m.contrast < 40)
    /\ m.is_too_dark <=> (m.brightness < 80)
    /\ m.is_too_bright <=> (m.brightness > 200)
    /\ m.is_blurry <=> (m.blur_score < 100)
    /\ m.is_noisy <=> (m.noise_level > 15)
    /\ m.needs_skew_correction <=> (m.skew_angle > 5 \/ m.skew_angle < -5)

\* C13: the overall_quality of every metrics dict, at every moment, lies
\* between 0 and 100 points (0 and 20000 in 1/200 point)
C13_QualityInRange ==
    \A id \in DOMAIN heap :
        heap[id].overall_quality >= 0 /\ heap[id].overall_quality <= 100 * 200

\* C13 witness: analyze returned the full 100 points, for an image with no
\* issue and a confidence of 100
C13_Witness ==
    /\ Returned(1)
    /\ heap[local[1].metrics].text_confidence = 100
    /\ heap[local[1].metrics].overall_quality = 100 * 200

\* C14: in every dict analyze returned, overall_quality is the
\* penalty-adjusted score times (0.5 + 0.5 * text_confidence / 100), that is
\* score * (100 + text_confidence) in 1/200 point; it is at most the score
\* and at least half the score
C14_QualityFormula ==
    \A t \in Threads :
        Returned(t) =>
            LET m == heap[local[t].metrics]
            IN  /\ m.overall_quality = PenaltyOf(m) * (100 + m.text_confidence)
                /\ m.overall_quality <= PenaltyOf(m) * 200
                /\ 2 * m.overall_quality >= PenaltyOf(m) * 200

\* C14 witness: analyze returned for an image with all five penalties and a
\* confidence of 50: 15 points * 0.75
C14_Witness ==
    /\ Returned(1)
    /\ PenaltyOf(heap[local[1].metrics]) = 15
    /\ heap[local[1].metrics].text_confidence = 50
    /\ heap[local[1].metrics].overall_quality = 15 * 150

\* C15: in every dict analyze has returned (the one a caller of analyze
\* holds, the two a call of auto_preprocess holds, the two of every report in
\* the history) each flag equals its threshold test on the numbers of the
\* same dict
C15_FlagsAreThresholdTests ==
    /\ \A t \in Threads :
            \A id \in {local[t].metrics, local[t].processed_metrics} \ {0} :
                FlagsMatch(heap[id])
    /\ \A k \in 1..Len(processing_history) :
            /\ FlagsMatch(heap[processing_history[k].original_metrics])
            /\ FlagsMatch(heap[processing_history[k].processed_metrics])

\* C15 witness: analyze returned for an image whose numbers are all exactly on
\* a threshold (contrast 40, brightness 80, blur_score 100, noise_level 15,
\* skew 0.5 degrees) and no flag is set
C15_Witness ==
    /\ Returned(1)
    /\ LET m == heap[local[1].metrics]
       IN  /\ m.contrast = 40 /\ m.brightness = 80 /\ m.blur_score = 100
           /\ m.noise_level = 15 /\ m.skew_angle = 5
           /\ PenaltyOf(m) = 100

\* C16: a call of get_preprocessing_recommendations after analyze returns the
\* seven values the rules give for the analyzer's current dict, and leaves
\* that dict, and which dict is current, as they were
C16_RecommendationsPure ==
    [][\A t \in Threads :
        (Returned(t) /\ pc[t] = "analyzed" /\ pc'[t] = "recommended") =>
            LET m == heap[analyzer_metrics]
                recs == local'[t].recommendations
            IN  /\ heap' = heap
                /\ analyzer_metrics' = analyzer_metrics
                /\ recs["convert_grayscale"]
                        <=> (m.is_color /\ m.text_confidence < 70)
                /\ recs["adjust_brightness"]
                        <=> (m.is_too_dark \/ m.is_too_bright)
                /\ recs["enhance_contrast"] <=> m.has_low_contrast
                /\ recs["sharpen"] <=> m.is_blurry
                /\ recs["denoise"] <=> m.is_noisy
                /\ recs["correct_skew"] <=> m.needs_skew_correction
                /\ recs["apply_threshold"] <=> (m.text_confidence < 60)]_vars

\* C16 witness: the recommendations of a colour image with confidence 65:
\* convert_grayscale but not apply_threshold
C16_Witness ==
    /\ Returned(1) /\ pc[1] = "recommended"
    /\ heap[analyzer_metrics].text_confidence = 65
    /\ local[1].recommendations["convert_grayscale"]
    /\ ~local[1].recommendations["apply_threshold"]

\* C17: the answer of needs_preprocessing is true exactly when the
\* overall_quality of the image analyzed last is under 80 points or one of
\* its seven recommendations is true
C17_NeedsPreprocessing ==
    \A t \in Threads :
        (Returned(t) /\ pc[t] = "answered") =>
            (local[t].result.value
                <=> \/ Analyze(local[t].image.img).overall_quality < 80 * 200
                    \/ \E r \in RecNames : local[t].recommendations[r])

\* C17 witness: the answer is true for an image of 80 points or more, on the
\* strength of a recommendation alone
C17_Witness ==
    /\ Returned(1) /\ pc[1] = "answered"
    /\ local[1].result.value
    /\ heap[local[1].metrics].overall_quality >= 80 * 200

\* C18: the exception of the OCR probe never leaves _quick_ocr_confidence, so
\* analyze goes on; for an image whose probe raises, the dict analyze returns
\* (to its caller, or to auto_preprocess as metrics) has text_confidence 0, the other measured values of the image, the flags
\* of those values, and the overall_quality of the flags at half weight
C18_ProbeFailureSwallowed ==
    \A t \in Threads :
        /\ pc[t] = "an_measure" =>
                QuickOcrConfidence(AnalyzedImage(local[t])) # ProbeError
        /\ (local[t].metrics # 0 /\ local[t].image.img.probe = "raises") =>
            LET m == heap[local[t].metrics]
                img == local[t].image.img
            IN  /\ m.text_confidence = 0
                /\ m.blur_score = img.blur_score
                /\ m.contrast = img.contrast
                /\ m.brightness = img.brightness
                /\ m.noise_level = img.noise_level
                /\ m.skew_angle = DetectSkew(img.lines)
                /\ m.is_color <=> (img.mode = "RGB")
                /\ FlagsMatch(m)
                /\ m.overall_quality = PenaltyOf(m) * 100

\* C18 witness: analyze returned for a blurry, dark image whose probe raises
C18_Witness ==
    /\ Returned(1)
    /\ local[1].image.img.probe = "raises"
    /\ heap[local[1].metrics].is_blurry
    /\ heap[local[1].metrics].is_too_dark
    /\ heap[local[1].metrics].overall_quality = 60 * 100

\* the operation of the given kind has returned to thread t
Operated(t, kind) ==
    /\ local[t].kind = "operation" /\ pc[t] = "operated"
    /\ local[t].result.kind = kind

\* the algorithm the image returned by _smart_denoise went through: the last
\* entry of its pixel history, or "none" when the very object came back
AlgorithmUsed(t) ==
    IF local[t].result.image = local[t].image THEN "none"
    ELSE local[t].result.image.img.pix[Len(local[t].result.image.img.pix)]

\* C19, as stated: the bands are [0,5) no-op, [5,10) Gaussian, [10,20)
\* bilateral, [20,..) non-local-means
C19_BandsLowerInclusive ==
    \A t \in Threads :
        Operated(t, "denoise") =>
            LET n == local[t].result.value
            IN  AlgorithmUsed(t) =
                    CASE n < 5 -> "none"
                      [] n >= 5 /\ n < 10 -> "gaussian"
                      [] n >= 10 /\ n < 20 -> "bilateral"
                      [] n >= 20 -> "nlm"

\* C19, amended: the bands are [0,5) no-op, [5,10] Gaussian, (10,20]
\* bilateral, (20,..) non-local-means; a no-op returns the very object, every
\* other band a new one
C19_BandsUpperInclusive ==
    \A t \in Threads :
        Operated(t, "denoise") =>
            LET n == local[t].result.value
            IN  /\ AlgorithmUsed(t) =
                    CASE n < 5 -> "none"
                      [] n >= 5 /\ n <= 10 -> "gaussian"
                      [] n > 10 /\ n <= 20 -> "bilateral"
                      [] n > 20 -> "nlm"
                /\ (n < 5) <=> (local[t].result.image = local[t].image)

\* C19 witness: _smart_denoise with noise_level exactly 20 used the bilateral
\* filter
C19_Witness ==
    /\ Operated(1, "denoise")
    /\ local[1].result.value = 20
    /\ AlgorithmUsed(1) = "bilateral"

\* the factor the claim gives for a current brightness, in thousandths
ClaimedFactor(current) ==
    IF current > 0
    THEN (IF (140 * 1000) \div current < 300 THEN 300
          ELSE IF (140 * 1000) \div current > 3000 THEN 3000
          ELSE (140 * 1000) \div current)
    ELSE 1500

\* C20: _auto_brightness returns the very image it was given exactly when
\* |current - 140| < 10; otherwise it returns a new image whose intensities
\* are those of the input times 140/current clamped to [0.3, 3.0], or times
\* 1.5 when current <= 0 (saturating at 255); the factor is within [0.3, 3.0]
C20_BrightnessNormalization ==
    \A t \in Threads :
        Operated(t, "brightness") =>
            LET current == local[t].result.value
                before == local[t].image
                after == local[t].result.image
                scaled == (before.img.brightness * ClaimedFactor(current))
                                \div 1000
            IN  /\ (after = before)
                        <=> (current - 140 < 10 /\ 140 - current < 10)
                /\ after # before =>
                    /\ after.obj # before.obj
                    /\ BrightnessFactor(current) = ClaimedFactor(current)
                    /\ BrightnessFactor(current) >= 300
                    /\ BrightnessFactor(current) <= 3000
                    /\ after.img.brightness
                            = (IF scaled > 255 THEN 255 ELSE scaled)

\* C20 witness: a dark image (mean 40) scaled for a current brightness of
\* 10: 140/10 = 14 is clamped to 3.0, the mean becomes 120
C20_Witness ==
    /\ Operated(1, "brightness")
    /\ local[1].result.value = 10
    /\ local[1].image.img.brightness = 40
    /\ local[1].result.image.img.brightness = 120

\* the candidates of an image whose ink ratio is in the ideal range
Qualified(ink) == {k \in 1..Len(ink) : ink[k] >= 50 /\ ink[k] <= 300}

\* C21: when some candidate's ink ratio is within [0.05, 0.3] the
\* binarization returned is a candidate within that range whose score
\* 1 - |ratio - 0.15| / 0.15 is the highest among those within the range;
\* when none is, it is Otsu's
C21_BestQualifiedCandidate ==
    \A t \in Threads :
        Operated(t, "threshold") =>
            LET ink == local[t].image.img.ink
                returned == local[t].result.image.img
                chosen == {k \in 1..Len(Methods) :
                            Methods[k] = returned.pix[Len(returned.pix)]}
            IN  IF Qualified(ink) = {}
                THEN chosen = {1}
                ELSE \E k \in chosen \cap Qualified(ink) :
                        \A j \in Qualified(ink) :
                            150 * 150 - 150 * Abs(ink[k] - 150)
                                >= 150 * 150 - 150 * Abs(ink[j] - 150)

\* the angles, after the 90-degree offset, of the lines of an image that lie
\* within -45..45 degrees
KeptAngles(img) ==
    {img.lines[k] - 900 : k \in 1..Len(img.lines)} \cap (-450..450)

\* C22: in every dict analyze returned, skew_angle is within -45..45 degrees,
\* and it is 0 when the image has no line whose angle, after the 90-degree
\* offset, is within -45..45 degrees (also when it has no line at all)
C22_SkewInRange ==
    \A t \in Threads :
        Returned(t) =>
            LET m == heap[local[t].metrics]
            IN  /\ m.skew_angle >= -450 /\ m.skew_angle <= 450
                /\ KeptAngles(local[t].image.img) = {} => m.skew_angle = 0

\* C22 witness: of three lines with theta 90, 135 and 136 degrees the last is
\* dropped and the median of the other two angles, 22.5 degrees, is reported
C22_Witness ==
    /\ Returned(1)
    /\ local[1].image.img.lines = <<900, 1350, 1360>>
    /\ heap[local[1].metrics].skew_angle = 225

\* step_details runs parallel to applied_steps: same length, and the entry at
\* each position names the step at that position and has a reason
DetailsMatch(applied_steps, step_details) ==
    /\ Len(step_details) = Len(applied_steps)
    /\ \A k \in 1..Len(applied_steps) :
            /\ {"step", "reason"} \subseteq DOMAIN step_details[k]
            /\ step_details[k].step = applied_steps[k]
            /\ step_details[k].reason # ""

\* C23: in every report of auto_preprocess (the one being returned and those
\* in the history) step_details has one entry per applied step, in the same
\* order, each with the step's name and a reason
C23_DetailsParallelSteps ==
    /\ \A t \in Threads :
            HasReport(t) =>
                DetailsMatch(local[t].result.info.applied_steps,
                             local[t].result.info.step_details)
    /\ \A k \in 1..Len(processing_history) :
            DetailsMatch(processing_history[k].applied_steps,
                         processing_history[k].step_details)

\* C23 witness: a report with all seven steps and seven details, the second
\* carrying the angle and the last none
C23_Witness ==
    /\ AutoDone(1)
    /\ Len(local[1].result.info.applied_steps) = 7
    /\ Len(local[1].result.info.step_details) = 7
    /\ "angle" \in DOMAIN local[1].result.info.step_details[2]
    /\ local[1].result.info.step_details[7].step = "adaptive_threshold"

\* the pixel transform an image went through last
LastTransform(p) == p.img.pix[Len(p.img.pix)]

\* C24: an iteration of manual_preprocess on the step 'denoise' replaces the
\* image by _smart_denoise of it at noise level 10, which is the Gaussian
\* blur, and one on 'sharpen' by _smart_sharpen of it at blur score 100, which
\* is the unsharp mask, whatever the noise and the blur of the image
C24_ManualNominalSeverity ==
    [][\A t \in Threads :
        (/\ pc[t] = "manual_loop"
         /\ local[t].i <= Len(local[t].arg)
         /\ local'[t].i = local[t].i + 1) =>
            LET step == local[t].arg[local[t].i]
                before == local[t].processed
                after == local'[t].processed
            IN  /\ step = "denoise" =>
                    /\ after = SmartDenoise(before, 10)
                    /\ after.obj = before.obj + 1
                    /\ LastTransform(after) = "gaussian"
                /\ step = "sharpen" =>
                    /\ after = SmartSharpen(before, 100)
                    /\ after.obj = before.obj + 1
                    /\ LastTransform(after) = "unsharp"]_vars

\* C24 witness: manual_preprocess with sharpen, denoise, sharpen returned for
\* the noisy, blurry image (noise 18, blur score 80) and for none of the three
\* steps the measured band (bilateral) was used
C24_Witness ==
    /\ pc[1] = "done" /\ local[1].result.kind = "manual"
    /\ local[1].image.img = PoorColor
    /\ local[1].result.image.img.pix = <<"unsharp", "gaussian", "unsharp">>

\* thread t is in a call of process_with_fallback whose vision call returned
VisionReturned(t) ==
    local[t].kind = "fallback" /\ local[t].vision_result # NoResponse

\* C25: in process_with_fallback the vision model is called first; OCR and
\* the text model are called only after the vision call failed; a successful
\* response is tagged direct_vision when the vision call succeeded and
\* hybrid_fallback when it failed; a failure response is returned only when
\* the vision call and the hybrid attempt both failed
C25_VisionFirstFallback ==
    \A t \in Threads :
        local[t].kind = "fallback" =>
            /\ local[t].invoked # <<>> =>
                    local[t].invoked[1] = "vision" /\ VisionReturned(t)
            /\ (VisionReturned(t) /\ local[t].vision_result.success) =>
                    local[t].invoked = <<"vision">>
            /\ pc[t] = "done" =>
                /\ VisionReturned(t)
                /\ local[t].result.success =>
                    /\ local[t].result.data.method = "direct_vision"
                            <=> local[t].vision_result.success
                    /\ local[t].result.data.method = "hybrid_fallback"
                            <=> ~local[t].vision_result.success
                /\ ~local[t].result.success =>
                    /\ ~local[t].vision_result.success
                    /\ local[t].hybrid_result # NoResponse
                    /\ ~local[t].hybrid_result.success

\* C25 witness: the vision call failed, OCR found text, the text model failed
\* too, and the response is a success tagged hybrid_fallback
C25_Witness ==
    /\ pc[1] = "done" /\ local[1].kind = "fallback"
    /\ local[1].invoked = <<"vision", "ocr", "text">>
    /\ ~local[1].llm_result.success
    /\ local[1].result.success
    /\ local[1].result.data.method = "hybrid_fallback"
    /\ local[1].result.data.llm_result = None

\* C26: once the recommendations of an analyzed image are known, if none of
\* the seven is true its overall_quality is 80 points or more; hence the
\* answer of needs_preprocessing is true exactly when a recommendation is
C26_QualityTestNeverDecides ==
    \A t \in Threads :
        (Returned(t) /\ pc[t] \in {"recommended", "answered"}) =>
            /\ (\A r \in RecNames : ~local[t].recommendations[r]) =>
                    heap[local[t].metrics].overall_quality >= 80 * 200
            /\ pc[t] = "answered" =>
                    (local[t].result.value
                        <=> \E r \in RecNames : local[t].recommendations[r])

\* C26 witness: a gray image without issue and with confidence 60 has no
\* recommendation and exactly 80 points, and the answer is false
C26_Witness ==
    /\ Returned(1) /\ pc[1] = "answered"
    /\ \A r \in RecNames : ~local[1].recommendations[r]
    /\ heap[local[1].metrics].text_confidence = 60
    /\ heap[local[1].metrics].overall_quality = 80 * 200
    /\ ~local[1].result.value

\* the pixel transforms by which a recorded step shows in the image when it
\* did not take a no-op branch
TransformsOf(step) ==
    CASE step = "grayscale" -> {"luma"}
      [] step = "skew_correction" -> {"rotate"}
      [] step = "brightness_adjustment" -> {"scale"}
      [] step = "contrast_enhancement" -> {"clahe", "contrast"}
      [] step = "denoising" -> {"bilateral", "nlm"}
      [] step = "sharpening" -> {"kernel", "unsharp"}
      [] step = "adaptive_threshold" -> Range(Methods)

\* C27: in a report of auto_preprocess called without force_steps every
\* recorded step changed the image: the image returned went through exactly
\* one transform per recorded step, in order; the one of skew_correction is a
\* rotation, of brightness_adjustment a rescaling, of denoising the bilateral
\* filter or non-local-means, of sharpening the kernel or the unsharp mask;
\* and each made a new image object
C27_RecordedStepsAct ==
    \A t \in Threads :
        (HasReport(t) /\ local[t].arg = <<>>) =>
            LET steps == local[t].result.info.applied_steps
                returned == local[t].result.image
            IN  /\ Len(returned.img.pix) = Len(steps)
                /\ \A k \in 1..Len(steps) :
                        returned.img.pix[k] \in TransformsOf(steps[k])
                /\ returned.obj = 1 + Len(steps)

\* C27 witness: a report for an image just beyond every threshold (skew 1
\* degree, brightness 79, noise 16, blur score 99) with the rotation, the
\* rescaling, the bilateral filter and the unsharp mask in the image
C27_Witness ==
    /\ AutoDone(1) /\ local[1].arg = <<>>
    /\ heap[local[1].result.info.original_metrics].noise_level = 16
    /\ heap[local[1].result.info.original_metrics].blur_score = 99
    /\ heap[local[1].result.info.original_metrics].brightness = 79
    /\ heap[local[1].result.info.original_metrics].skew_angle = 10
    /\ {"rotate", "scale", "bilateral", "unsharp"}
            \subseteq Range(local[1].result.image.img.pix)

\* C28: when the fast-OCR probe is unavailable or fails, the report of
\* auto_preprocess has an original overall_quality of at most 50 points,
\* recommends apply_threshold, has adaptive_threshold as its last applied
\* step, has grayscale as its first applied step when the image is color and
\* not of mode L, and needs_preprocessing is true of the original metrics
C28_ProbeFailure ==
    \A t \in Threads :
        (HasReport(t) /\ local[t].image.img.probe = "raises") =>
            LET info == local[t].result.info
                m == heap[info.original_metrics]
                steps == info.applied_steps
            IN  /\ m.overall_quality <= 50 * 200
                /\ info.recommendations["apply_threshold"]
                /\ Len(steps) > 0
                /\ steps[Len(steps)] = "adaptive_threshold"
                /\ (m.is_color /\ local[t].image.img.mode # "L")
                        => steps[1] = "grayscale"
                /\ NeedsPreprocessing(m)

\* C28 witness: a report for a sharp, bright-enough colour image on which the
\* probe raised: grayscale first, adaptive_threshold last
C28_Witness ==
    /\ AutoDone(1)
    /\ local[1].image.img.probe = "raises"
    /\ local[1].image.img.mode = "RGB"
    /\ local[1].image.img.blur_score = 100
    /\ local[1].image.img.noise_level = 15
    /\ local[1].result.info.applied_steps[1] = "grayscale"
    /\ Len(local[1].result.info.applied_steps) >= 2
    /\ local[1].result.info.applied_steps[
            Len(local[1].result.info.applied_steps)] = "adaptive_threshold"
    /\ heap[local[1].result.info.original_metrics].text_confidence = 0

\* the last entry of the step_details of frame f
LastDetail(f) == f.step_details[Len(f.step_details)]

\* thread t takes the step of auto_preprocess at position from
AutoStepFrom(t, from, to) == pc[t] = from /\ pc'[t] = to

\* C29: every parameterized step of auto_preprocess that is applied passes
\* to its operation, and records in step_details, the value that the metrics
\* measured once on the original image hold, whatever the earlier steps of the
\* call did to the image: the skew angle, the brightness, the noise_level and
\* the blur_score are those of the analysis of the input image, which the
\* report gives as original_metrics
C29_StepsUseOriginalMetrics ==
    [][\A t \in Threads :
        LET f == local[t]
            g == local'[t]
            m == Analyze(f.image.img)
        IN  /\ pc[t] \in {"skew", "brightness", "denoise", "sharpen"}
                => heap[f.metrics] = m
            /\ (AutoStepFrom(t, "skew", "brightness") /\ DoSkew(f))
                => /\ g.processed = CorrectSkew(f.processed, m.skew_angle)
                   /\ LastDetail(g).angle = m.skew_angle
            /\ (AutoStepFrom(t, "brightness", "contrast") /\ DoBrightness(f))
                => g.processed = AutoBrightness(f.processed, m.brightness)
            /\ (AutoStepFrom(t, "denoise", "sharpen") /\ DoDenoise(f))
                => /\ g.processed = SmartDenoise(f.processed, m.noise_level)
                   /\ LastDetail(g).noise_level = m.noise_level
            /\ (AutoStepFrom(t, "sharpen", "threshold") /\ DoSharpen(f))
                => /\ g.processed = SmartSharpen(f.processed, m.blur_score)
                   /\ LastDetail(g).blur_score = m.blur_score
            /\ (pc[t] = "report" /\ HasReport(t)')
                => heap'[g.result.info.original_metrics] = m
    ]_vars

\* C29 witness: sharpening was just applied with the original blur score 99
\* (unsharp mask) to an image whose blur score the bilateral filter of the
\* same call had already brought under 50
C29_Witness ==
    /\ pc[1] = "threshold" /\ local[1].kind = "auto"
    /\ Len(local[1].step_details) > 0
    /\ LastDetail(local[1]).step = "sharpening"
    /\ LastDetail(local[1]).blur_score = 99
    /\ heap[local[1].metrics].blur_score = 99
    /\ Len(local[1].processed.img.pix) >= 2
    /\ LastTransform(local[1].processed) = "unsharp"
    /\ "bilateral" \in Range(local[1].processed.img.pix)
    /\ local[1].processed.img.blur_score = (99 \div 2) * 2

\* name is one of the seven recommendation names
IsRecName(name) == name \in RecNames

\* the image auto_preprocess(img, force_steps) returns when it runs alone
ImageAlone(img, force_steps) ==
    LET m == Analyze(img)
        f0 == [IdleFrame EXCEPT
                    !.image = Ref(0, img),
                    !.processed = New(Ref(0, img), img),
                    !.recommendations =
                        Force(GetPreprocessingRecommendations(m), force_steps)]
    IN  AfterThreshold(AfterSharpen(AfterDenoise(AfterContrast(
            AfterBrightness(AfterSkew(AfterGrayscale(f0), m), m)), m), m))
        .processed

\* C30: names in force_steps that are not recommendation names are passed
\* over: the report's recommendations, its applied_steps and the returned
\* image are those of the call with only the recommendation names of the
\* list, and the recommendations have the seven keys and no other
C30_UnknownForceNamesIgnored ==
    \A t \in Threads :
        HasReport(t) =>
            LET info == local[t].result.info
                known == SelectSeq(local[t].arg, IsRecName)
                alone == AutoAlone(local[t].image.img, known)
            IN  /\ info.recommendations = alone.recommendations
                /\ info.applied_steps = alone.applied_steps
                /\ local[t].result.image =
                        ImageAlone(local[t].image.img, known)
                /\ DOMAIN info.recommendations = RecNames

\* C30 witness: a report of the call forcing 'denoising', 'sharpen' and
\* 'invert' on the clean gray image: only sharpening is applied
C30_Witness ==
    /\ AutoDone(1)
    /\ local[1].arg = <<"denoising", "sharpen", "invert">>
    /\ local[1].image.img = CleanGray
    /\ local[1].result.info.applied_steps = <<"sharpening">>
    /\ local[1].result.info.recommendations["sharpen"]
    /\ ~local[1].result.info.recommendations["denoise"]

====
